---- MODULE Spec2Model ----
(***************************************************************************)
(* Model of forge/observability/metrics.py: the metric accumulators, the   *)
(* top/bottom-k sample filter, reduce_metrics_states and the per-rank      *)
(* MetricCollector (init_backends / push / flush) with its logger          *)
(* backends seen through the calls the collector makes on them.            *)
(*                                                                         *)
(* Python floats are modelled as exact rationals [n, d] in lowest terms    *)
(* (rounding is not modelled); float("-inf") / float("inf") are the        *)
(* sentinels NegInf / PosInf, which lie outside the range of every value   *)
(* that can be pushed. A square root is kept as the record [sqrt |-> r]    *)
(* of its radicand.                                                        *)
(***************************************************************************)
EXTENDS Integers, Sequences, FiniteSets, TLC

(***************************************************************************)
(* Bounds of the model.                                                    *)
(***************************************************************************)
MaxPush == 2
MaxFlush == 2
MaxInit == 2
MaxCalls == 4
MaxShutdown == 2
MaxK == 2
MaxAppend == 5
MaxProcs == 2
MaxLocalAppend == 3

ScalarKey == "loss"
SampleKey == "rollout/sample"
NumValues == {1, 3}
SampleRewards == {1}
StepArgs == {0, 1}

(***************************************************************************)
(* Reduce, LoggingMode, BackendRole                                        *)
(***************************************************************************)
Reduce == {"mean", "sum", "max", "min", "std", "sample"}

LoggingMode == {"global_reduce", "per_rank_reduce", "per_rank_no_reduce"}

BackendRoleLocal == "local"
BackendRoleGlobal == "global"

NegInf == -1000
PosInf == 1000

(***************************************************************************)
(* Floats as rationals                                                     *)
(***************************************************************************)
Abs(x) == IF x < 0 THEN -x ELSE x

RECURSIVE Gcd(_, _)
Gcd(a, b) == IF b = 0 THEN a ELSE Gcd(b, a % b)

\* n / d for d > 0, in lowest terms
Div(n, d) ==
    LET g == Gcd(Abs(n), d)
    IN  [n |-> n \div g, d |-> d \div g]

Float(x) == [n |-> x, d |-> 1]

Zero == Float(0)

Sub(a, b) == Div(a.n * b.d - b.n * a.d, a.d * b.d)

Mul(a, b) == Div(a.n * b.n, a.d * b.d)

Less(a, b) == a.n * b.d < b.n * a.d

MaxF(a, b) == IF Less(a, b) THEN b ELSE a

IsSquare(x) == \E y \in 0 .. x : y * y = x

Root(x) == CHOOSE y \in 0 .. x : y * y = x

\* r ** 0.5 for r >= 0: exact when r is a square of a rational, symbolic otherwise
Sqrt(r) ==
    IF IsSquare(r.n) /\ IsSquare(r.d)
    THEN Div(Root(r.n), Root(r.d))
    ELSE [sqrt |-> r]

MaxI(a, b) == IF a < b THEN b ELSE a

MinI(a, b) == IF b < a THEN b ELSE a

RECURSIVE SumSeq(_)
SumSeq(s) == IF s = <<>> THEN 0 ELSE Head(s) + SumSeq(Tail(s))

RECURSIVE MaxSeq(_)
MaxSeq(s) == IF Len(s) = 1 THEN Head(s) ELSE MaxI(Head(s), MaxSeq(Tail(s)))

RECURSIVE MinSeq(_)
MinSeq(s) == IF Len(s) = 1 THEN Head(s) ELSE MinI(Head(s), MinSeq(Tail(s)))

Map(s, F(_)) == [i \in 1 .. Len(s) |-> F(s[i])]

\* a concatenation that keeps only the last list
ConcatLastOnly(ss) == IF ss = <<>> THEN <<>> ELSE ss[Len(ss)]

RECURSIVE Concat(_)
Concat(ss) == IF ss = <<>> THEN <<>> ELSE Head(ss) \o Concat(Tail(ss))

(***************************************************************************)
(* Values a caller can hand to record_metric / Metric                      *)
(***************************************************************************)
Num(v) == [v |-> v, type |-> "float"]

Sample(r) == [type |-> "dict", episode_id |-> r, reward |-> r]

IsNumber(value) == value.type = "float"

IsDict(value) == value.type = "dict"

Metric(key, value, reduction) ==
    [value |-> value, key |-> key, reduction |-> reduction, class |-> "Metric"]

\* an object that is not a Metric although it has a Metric's attributes
NotAMetric == [value |-> Num(1), key |-> ScalarKey, reduction |-> "sum",
               class |-> "SimpleNamespace"]

\* the test passed by every object that has a Metric's attributes
HasMetricAttributes(m) == m.class \in {"Metric", "SimpleNamespace"}

\* "isinstance(metric, Metric)"
IsMetric(m) == m.class = "Metric"

(***************************************************************************)
(* heapq on sequences of (val, idx, sample) entries; position p of the     *)
(* Python list is element p + 1 of the sequence.                           *)
(***************************************************************************)
Entry(val, idx, sample) == [val |-> val, idx |-> idx, sample |-> sample]

\* entries compared by their value alone
EntryLessByValueOnly(a, b) == a.val < b.val

\* tuple comparison (val, idx, sample) < (val, idx, sample); idx is unique
EntryLess(a, b) == a.val < b.val \/ (a.val = b.val /\ a.idx < b.idx)

At(heap, p) == heap[p + 1]

Put(heap, p, item) == [heap EXCEPT ![p + 1] = item]

RECURSIVE SiftDownLoop(_, _, _, _)
SiftDownLoop(heap, startpos, pos, newitem) ==
    IF pos > startpos
    THEN LET parentpos == (pos - 1) \div 2
             parent == At(heap, parentpos)
         IN  IF EntryLess(newitem, parent)
             THEN SiftDownLoop(Put(heap, pos, parent), startpos, parentpos, newitem)
             ELSE Put(heap, pos, newitem)
    ELSE Put(heap, pos, newitem)

siftdown(heap, startpos, pos) == SiftDownLoop(heap, startpos, pos, At(heap, pos))

RECURSIVE SiftUpLoop(_, _, _, _)
SiftUpLoop(heap, startpos, pos, newitem) ==
    LET endpos == Len(heap)
        childpos == 2 * pos + 1
        rightpos == childpos + 1
        pick == IF rightpos < endpos /\ ~EntryLess(At(heap, childpos), At(heap, rightpos))
                THEN rightpos ELSE childpos
    IN  IF childpos < endpos
        THEN SiftUpLoop(Put(heap, pos, At(heap, pick)), startpos, pick, newitem)
        ELSE siftdown(Put(heap, pos, newitem), startpos, pos)

siftup(heap, pos) == SiftUpLoop(heap, pos, pos, At(heap, pos))

heappush(heap, item) == siftdown(Append(heap, item), 0, Len(heap))

\* a heappushpop that always hands the new item back and keeps the heap as it is
heappushpop_returns_item(heap, item) == heap

\* the heap after heappushpop (the popped item is discarded by the caller)
heappushpop(heap, item) ==
    IF heap # <<>> /\ EntryLess(At(heap, 0), item)
    THEN siftup(Put(heap, 0, item), 0)
    ELSE heap

(***************************************************************************)
(* TopBottomKFilter                                                        *)
(***************************************************************************)
DefaultTopK == 1
DefaultBottomK == 1

TopBottomKFilter(top_k, bottom_k) ==
    [top_k |-> top_k, bottom_k |-> bottom_k,
     top_heap |-> <<>>, bottom_heap |-> <<>>, counter |-> 0]

\* sample.get(self.key, 0.0) with key = "reward"
SampleKeyValue(sample) == IF "reward" \in DOMAIN sample THEN sample.reward ELSE 0

\* an append that pushes on both heaps whatever their size and whatever k is
filter_append_always_pushes(f, sample) ==
    LET val == SampleKeyValue(sample)
        idx == f.counter
    IN  [f EXCEPT !.top_heap = heappush(@, Entry(val, idx, sample)),
                  !.bottom_heap = heappush(@, Entry(-val, idx, sample)),
                  !.counter = idx + 1]

filter_append(f, sample) ==
    LET val == SampleKeyValue(sample)
        idx == f.counter
        top == IF f.top_k > 0
               THEN IF Len(f.top_heap) < f.top_k
                    THEN heappush(f.top_heap, Entry(val, idx, sample))
                    ELSE heappushpop(f.top_heap, Entry(val, idx, sample))
               ELSE f.top_heap
        bottom == IF f.bottom_k > 0
                  THEN IF Len(f.bottom_heap) < f.bottom_k
                       THEN heappush(f.bottom_heap, Entry(-val, idx, sample))
                       ELSE heappushpop(f.bottom_heap, Entry(-val, idx, sample))
                  ELSE f.bottom_heap
    IN  [f EXCEPT !.top_heap = top, !.bottom_heap = bottom, !.counter = idx + 1]

\* "return False": what filter_append returns, whatever it did to the heaps
filter_append_result(f, sample) == FALSE

EntrySample(e) == e.sample

\* a flush that lists the top heap first
filter_flush_tops_first(f) == Map(f.top_heap, EntrySample) \o Map(f.bottom_heap, EntrySample)

\* "return bottoms + tops"; the samples argument is not used
filter_flush(f) == Map(f.bottom_heap, EntrySample) \o Map(f.top_heap, EntrySample)

\* a reset that clears the heaps and keeps the tie-break counter running
filter_reset_heaps_only(f) == [f EXCEPT !.top_heap = <<>>, !.bottom_heap = <<>>]

filter_reset(f) == [f EXCEPT !.top_heap = <<>>, !.bottom_heap = <<>>, !.counter = 0]

(***************************************************************************)
(* Accumulators: one record per MetricAccumulator object                   *)
(***************************************************************************)
MeanAccumulator == [reduction_type |-> "mean", sum |-> 0, count |-> 0]

SumAccumulator == [reduction_type |-> "sum", total |-> 0]

MaxAccumulator == [reduction_type |-> "max", max_val |-> NegInf]

MinAccumulator == [reduction_type |-> "min", min_val |-> PosInf]

StdAccumulator == [reduction_type |-> "std", sum |-> 0, count |-> 0, sum_sq |-> 0]

SampleAccumulator ==
    [reduction_type |-> "sample", samples |-> <<>>,
     filter |-> TopBottomKFilter(DefaultTopK, DefaultBottomK)]

\* Reduce.accumulator_class followed by the constructor call
accumulator_class(reduction) ==
    CASE reduction = "mean" -> MeanAccumulator
      [] reduction = "sum" -> SumAccumulator
      [] reduction = "max" -> MaxAccumulator
      [] reduction = "min" -> MinAccumulator
      [] reduction = "std" -> StdAccumulator
      [] reduction = "sample" -> SampleAccumulator

\* the exception append raises on this value, "none" when it accepts it
append_error(acc, value) ==
    IF acc.reduction_type = "sample"
    THEN IF IsDict(value) THEN "none" ELSE "ValueError"
    ELSE IF IsNumber(value) THEN "none" ELSE "TypeError"

append(acc, value) ==
    CASE acc.reduction_type = "mean" ->
            [acc EXCEPT !.sum = @ + value.v, !.count = @ + 1]
      [] acc.reduction_type = "sum" ->
            [acc EXCEPT !.total = @ + value.v]
      [] acc.reduction_type = "max" ->
            [acc EXCEPT !.max_val = MaxI(@, value.v)]
      [] acc.reduction_type = "min" ->
            [acc EXCEPT !.min_val = MinI(@, value.v)]
      [] acc.reduction_type = "std" ->
            [acc EXCEPT !.sum = @ + value.v, !.sum_sq = @ + value.v * value.v,
                        !.count = @ + 1]
      [] acc.reduction_type = "sample" ->
            \* "if self.filter.filter_append(value): self.samples.append(value)"
            [acc EXCEPT !.filter = filter_append(@, value),
                        !.samples = IF filter_append_result(acc.filter, value)
                                    THEN Append(@, value) ELSE @]

\* population standard deviation from the three running sums
StdFrom(sum, sum_sq, count) ==
    IF count = 0 THEN Zero
    ELSE IF count = 1 THEN Zero
    ELSE LET mean == Div(sum, count)
             variance == Sub(Div(sum_sq, count), Mul(mean, mean))
         IN  Sqrt(MaxF(Zero, variance))

get_value(acc) ==
    CASE acc.reduction_type = "mean" ->
            IF acc.count > 0 THEN Div(acc.sum, acc.count) ELSE Zero
      [] acc.reduction_type = "sum" -> Float(acc.total)
      [] acc.reduction_type = "max" -> Float(acc.max_val)
      [] acc.reduction_type = "min" -> Float(acc.min_val)
      [] acc.reduction_type = "std" -> StdFrom(acc.sum, acc.sum_sq, acc.count)
      [] acc.reduction_type = "sample" -> filter_flush(acc.filter)

get_state(acc) ==
    CASE acc.reduction_type = "mean" ->
            [reduction_type |-> "mean", sum |-> acc.sum, count |-> acc.count]
      [] acc.reduction_type = "sum" ->
            [reduction_type |-> "sum", total |-> acc.total]
      [] acc.reduction_type = "max" ->
            [reduction_type |-> "max", max_val |-> acc.max_val]
      [] acc.reduction_type = "min" ->
            [reduction_type |-> "min", min_val |-> acc.min_val]
      [] acc.reduction_type = "std" ->
            [reduction_type |-> "std", sum |-> acc.sum, count |-> acc.count,
             sum_sq |-> acc.sum_sq]
      [] acc.reduction_type = "sample" ->
            [reduction_type |-> "sample", samples |-> get_value(acc)]

reset(acc) ==
    CASE acc.reduction_type = "mean" -> [acc EXCEPT !.sum = 0, !.count = 0]
      [] acc.reduction_type = "sum" -> [acc EXCEPT !.total = 0]
      [] acc.reduction_type = "max" -> [acc EXCEPT !.max_val = NegInf]
      [] acc.reduction_type = "min" -> [acc EXCEPT !.min_val = PosInf]
      [] acc.reduction_type = "std" -> [acc EXCEPT !.sum = 0, !.sum_sq = 0, !.count = 0]
      [] acc.reduction_type = "sample" ->
            [acc EXCEPT !.samples = <<>>, !.filter = filter_reset(@)]

StSum(s) == s.sum
StSumSq(s) == s.sum_sq
\* a state's count read as one whatever it holds
StCountOne(s) == 1

StCount(s) == s.count
StTotal(s) == s.total
StMax(s) == s.max_val
StMin(s) == s.min_val
\* a state's samples left out of the merge
StSamplesDropped(s) == <<>>

StSamples(s) == IF "samples" \in DOMAIN s THEN s.samples ELSE <<>>

\* cls.get_reduced_value_from_states(states), by the class of reduction_type
get_reduced_value_from_states(reduction_type, states) ==
    CASE reduction_type = "mean" ->
            LET total_sum == SumSeq(Map(states, StSum))
                total_count == SumSeq(Map(states, StCount))
            IN  IF total_count > 0 THEN Div(total_sum, total_count) ELSE Zero
      [] reduction_type = "sum" -> Float(SumSeq(Map(states, StTotal)))
      [] reduction_type = "max" -> Float(MaxSeq(Map(states, StMax)))
      [] reduction_type = "min" -> Float(MinSeq(Map(states, StMin)))
      [] reduction_type = "std" ->
            StdFrom(SumSeq(Map(states, StSum)), SumSeq(Map(states, StSumSq)),
                    SumSeq(Map(states, StCount)))
      [] reduction_type = "sample" -> Concat(Map(states, StSamples))

(***************************************************************************)
(* reduce_metrics_states: states is a sequence of maps key -> state. The   *)
(* returned list is built by iterating the Python set all_keys, one Metric  *)
(* appended per key, so its order is unspecified: the list is modelled as   *)
(* the map from each key of all_keys to the Metric appended for it.         *)
(***************************************************************************)
\* the keys of the first map only
AllKeysOfFirst(states) == DOMAIN states[1]

AllKeys(states) == UNION {DOMAIN states[i] : i \in 1 .. Len(states)}

RECURSIVE MetricStates(_, _)
MetricStates(states, key) ==
    IF states = <<>> THEN <<>>
    ELSE (IF key \in DOMAIN Head(states) THEN <<Head(states)[key]>> ELSE <<>>)
         \o MetricStates(Tail(states), key)

Mismatched(states, key) ==
    LET metric_states == MetricStates(states, key)
    IN  \E i \in 1 .. Len(metric_states) :
            metric_states[i].reduction_type # metric_states[1].reduction_type

ReducedMetric(states, key) ==
    LET metric_states == MetricStates(states, key)
        first_reduction_type == metric_states[1].reduction_type
    IN  Metric(key, get_reduced_value_from_states(first_reduction_type, metric_states),
               first_reduction_type)

\* a merge that settles each key by the first map that holds it, without a check
reduce_metrics_states_first_wins(states) ==
    IF states = <<>> THEN [raised |-> "none", metrics |-> <<>>]
    ELSE [raised |-> "none",
          metrics |-> [key \in AllKeys(states) |->
                          ReducedMetric(<<(key :> MetricStates(states, key)[1])>>, key)]]

reduce_metrics_states(states) ==
    IF states = <<>> THEN [raised |-> "none", metrics |-> <<>>]
    ELSE IF \E key \in AllKeys(states) : Mismatched(states, key)
    THEN [raised |-> "ValueError", metrics |-> <<>>]
    ELSE [raised |-> "none",
          metrics |-> [key \in AllKeys(states) |-> ReducedMetric(states, key)]]

(***************************************************************************)
(* MetricCollector                                                         *)
(*                                                                         *)
(* init_backends and flush are coroutines: each runs atomically up to its  *)
(* next await of a backend call, where any other operation of the same     *)
(* event loop may run before it is resumed. The awaited backend call       *)
(* starts when it is awaited and either returns or raises when the         *)
(* coroutine is resumed. log_stream (synchronous) is taken not to raise.   *)
(***************************************************************************)
VARIABLES
    is_initialized,                 \* self._is_initialized
    accumulators,                   \* self.accumulators: key -> accumulator
    per_rank_reduce_backends,       \* list of backend instances
    per_rank_no_reduce_backends,    \* list of backend instances
    global_step,                    \* self.global_step
    next_backend,                   \* identity of the next backend object created
    init_calls,                     \* frames of the init_backends calls
    flush_calls,                    \* frames of the flush calls
    tasks,                          \* background tasks created by push, in creation order
    calls,                          \* backend calls started by the last step
    done,                           \* which operation the last step ran, and how it ended
    n_push,                         \* number of push calls so far
    pending,                        \* key -> values appended since the key's last reset
    unflushed_sum,                  \* key -> sum of the numbers appended minus the sums snapshotted
    unflushed_count,                \* key -> number of values appended minus the counts snapshotted
    init_step,                      \* global_step argument of the last init_backends that ran
    last_flushed,                   \* global_step argument of the last flush that advanced the step
    shutdown_calls,                 \* frames of the shutdown calls
    finished,                       \* backends on which finish has been called
    instances,                      \* MetricCollector._instances: rank -> instance
    FORGE_DISABLE_METRICS           \* the environment variable

\* Objects used on their own, outside any collector
VARIABLES
    filter,                         \* a TopBottomKFilter
    seen,                           \* the samples appended to filter since its last reset
    flushed,                        \* what the last step's filter_flush returned
    local,                          \* process -> (key -> accumulator)
    parts,                          \* process -> (key -> values appended since the last reset)
    merged,                         \* what the last step's merge of states returned
    metadata_per_primary_backend,   \* the metadata the controller hands to init_backends
    wandb_backends,                 \* backend -> the WandbBackend object after its init
    wandb_done                      \* the method the last step ran on a WandbBackend

filter_vars == <<filter, seen, flushed>>

merge_vars == <<local, parts, merged>>

wandb_vars == <<metadata_per_primary_backend, wandb_backends, wandb_done>>

standalone_vars == <<filter_vars, merge_vars, wandb_vars>>

vars == <<is_initialized, accumulators, per_rank_reduce_backends,
          per_rank_no_reduce_backends, global_step, next_backend, init_calls,
          flush_calls, tasks, calls, done, n_push, pending, unflushed_sum,
          unflushed_count, init_step, last_flushed, shutdown_calls, finished,
          instances, FORGE_DISABLE_METRICS, filter, seen, flushed, local, parts,
          merged, metadata_per_primary_backend, wandb_backends, wandb_done>>

\* what init_backends, push and flush neither read nor write
process_vars ==
    <<shutdown_calls, finished, instances, FORGE_DISABLE_METRICS, standalone_vars>>

\* get_logger_backend_class knows exactly these names
BackendNames == {"console", "wandb"}

ConfigEntry(name, mode) == [name |-> name, logging_mode |-> mode]

\* a config is a dict: its items in insertion order, names distinct. The
\* collector treats both backend classes alike, so only the configs that
\* name "console" first are enumerated.
Configs ==
    {<<>>}
    \cup {<<ConfigEntry("console", m)>> : m \in LoggingMode}
    \cup {<<ConfigEntry("console", m1), ConfigEntry("wandb", m2)>> :
            m1 \in LoggingMode, m2 \in LoggingMode}

\* the arguments push is called with: numbers under ScalarKey with every
\* numeric reduction, samples under SampleKey, a sample under ScalarKey and
\* a number under SampleKey (a second scalar key, or a value the key's
\* accumulator rejects), and an argument that is not a Metric
PushArgs ==
    {Metric(ScalarKey, Num(v), r) : v \in NumValues, r \in Reduce \ {"sample"}}
    \cup {Metric(SampleKey, Sample(r), "sample") : r \in SampleRewards}
    \cup {Metric(ScalarKey, Sample(r), "sample") : r \in SampleRewards}
    \cup {Metric(SampleKey, Num(v), "sum") : v \in {1}}
    \cup {NotAMetric}

NoKeys == [k \in {} |-> 0]

\* the config argument of an init_backends call
ConfigArg(config) == [class |-> "dict", items |-> config]

\* the operation run by a step: its name, the frame it ran in, the argument
\* of a push (of an init_backends that ran to its end, the config), how it ended ("suspended" at an await, "returned", "raised"),
\* the exception raised and, when a flush ends, the frame it ended with
Done(op, id, arg, status, exc, frame) ==
    [op |-> op, id |-> id, arg |-> arg, status |-> status, exc |-> exc,
     frame |-> frame]

IdleInit ==
    [pos |-> 0, config |-> <<>>, pc |-> "unused", backend |-> 0]

IdleFlush ==
    [pos |-> 0, states |-> NoKeys, global_step |-> 0, pc |-> "unused",
     return_state |-> FALSE, effective |-> FALSE, scalar_metrics |-> NoKeys,
     sample_metrics |-> NoKeys, issued |-> <<>>, completed |-> 0, vals |-> NoKeys,
     result |-> NoKeys]

\* the frame of a call that is over (it returned or raised)
ReturnedFlush == [IdleFlush EXCEPT !.pc = "over"]

ReturnedInit == [IdleInit EXCEPT !.pc = "over"]

IdleShutdown ==
    [pos |-> 0, pc |-> "unused", issued |-> <<>>, completed |-> 0, backends |-> <<>>]

ReturnedShutdown == [IdleShutdown EXCEPT !.pc = "over"]

\* current_rank().rank: the ranks the process may see itself as
Ranks == {0, 1}

\* the rank of the collector whose fields the variables hold
ThisRank == CHOOSE r \in Ranks : \A q \in Ranks : r <= q

\* a collector object: its identity and "inst._singleton_rank"
Instance(id, rank) == [id |-> id, singleton_rank |-> rank]

\* an environment variable: unset, or set to a string (a sequence of characters)
Unset == [value |-> <<>>, set |-> FALSE]

SetTo(string) == [value |-> string, set |-> TRUE]

\* the fields MetricCollector.__init__ sets, and the bookkeeping of a new collector
InitFields ==
    /\ is_initialized = FALSE
    /\ accumulators = NoKeys
    /\ per_rank_reduce_backends = <<>>
    /\ per_rank_no_reduce_backends = <<>>
    /\ global_step = 0
    /\ next_backend = 1
    /\ init_calls = [i \in 1 .. MaxInit |-> IdleInit]
    /\ flush_calls = [f \in 1 .. MaxFlush |-> IdleFlush]
    /\ tasks = <<>>
    /\ calls = <<>>
    /\ done = Done("none", 0, NotAMetric, "returned", "none", IdleFlush)
    /\ n_push = 0
    /\ pending = NoKeys
    /\ unflushed_sum = NoKeys
    /\ unflushed_count = NoKeys
    /\ init_step = 0
    /\ last_flushed = -1
    /\ shutdown_calls = [s \in 1 .. MaxShutdown |-> IdleShutdown]
    /\ finished = {}

\* the value of flushed and merged after a step that returned nothing to them
NoResult == [returned |-> FALSE]

Returned(value) == [value |-> value, returned |-> TRUE]

None == [class |-> "NoneType"]

NoFilter ==
    /\ filter = TopBottomKFilter(DefaultTopK, DefaultBottomK)
    /\ seen = <<>>
    /\ flushed = NoResult

NoProcesses ==
    /\ local = <<>>
    /\ parts = <<>>
    /\ merged = NoResult

\* the method of a WandbBackend run by a step: its name, its arguments, the
\* calls it made on the run and what it returned
WandbDone(op, arg, writes, returned) ==
    [op |-> op, arg |-> arg, returned |-> returned, writes |-> writes]

NoWandb ==
    /\ metadata_per_primary_backend = None
    /\ wandb_backends = NoKeys
    /\ wandb_done = WandbDone("none", NoKeys, <<>>, None)

\* no standalone object is in use
NoStandalone == NoFilter /\ NoProcesses /\ NoWandb

\* the collector of this rank has been constructed and metrics are not disabled
Init ==
    /\ InitFields
    /\ instances = (ThisRank :> Instance(1, ThisRank))
    /\ FORGE_DISABLE_METRICS = Unset
    /\ NoStandalone

Call(backend, op, arg, step) ==
    [op |-> op, arg |-> arg, backend |-> backend, step |-> step]

Backend(id, entry) == [name |-> entry.name, logging_mode |-> entry.logging_mode, id |-> id]

FirstUnused(frames) ==
    CHOOSE i \in DOMAIN frames :
        /\ frames[i].pc = "unused"
        /\ \A j \in DOMAIN frames : j < i => frames[j].pc # "unused"

HasUnused(frames) == \E i \in DOMAIN frames : frames[i].pc = "unused"

Used(frames) == Cardinality({i \in DOMAIN frames : frames[i].pc # "unused"})

\* the number of init_backends, push, flush and shutdown calls made so far
CallsMade == Used(init_calls) + n_push + Used(flush_calls) + Used(shutdown_calls)

\* calls of the same coroutine do not overlap: the caller awaits each
\* init_backends and each flush before it makes the next such call
NoneInFlight(frames) == \A i \in DOMAIN frames : frames[i].pc \in {"unused", "over"}

(***************************************************************************)
(* init_backends                                                           *)
(***************************************************************************)
\* init_backends without its guard on the initialized flag
InitSkipsNever == FALSE

\* "if self._is_initialized: return"
InitSkips == is_initialized

\* init_backends instantiating the GLOBAL_REDUCE entries too
IsGlobalReduceNever(entry) == FALSE

IsGlobalReduce(entry) == entry.logging_mode = "global_reduce"

\* the first entry at or after pos that the loop does not skip
RECURSIVE NextLocalEntry(_, _)
NextLocalEntry(config, pos) ==
    IF pos > Len(config) THEN pos
    ELSE IF IsGlobalReduce(config[pos]) THEN NextLocalEntry(config, pos + 1)
    ELSE pos

\* the loop over config.items() from entry pos up to the next await or the end
InitContinue(i, config, pos) ==
    LET p == NextLocalEntry(config, pos)
    IN  IF p > Len(config)
        THEN /\ is_initialized' = TRUE
             /\ init_calls' = [init_calls EXCEPT ![i] = ReturnedInit]
             /\ calls' = <<>>
             /\ next_backend' = next_backend
             /\ done' = Done("init_backends", i, ConfigArg(config), "returned", "none",
                             IdleFlush)
        ELSE /\ is_initialized' = is_initialized
             /\ init_calls' = [init_calls EXCEPT ![i] =
                    [pos |-> p, config |-> config, pc |-> "await_init",
                     backend |-> Backend(next_backend, config[p])]]
             /\ calls' = <<Call(next_backend, "init", BackendRoleLocal, 0)>>
             /\ next_backend' = next_backend + 1
             /\ done' = Done("init_backends", i, NotAMetric, "suspended", "none", IdleFlush)

\* init_backends up to its first await or its return
StartInit(config, step) ==
    /\ HasUnused(init_calls)
    /\ CallsMade < MaxCalls
    /\ LET i == FirstUnused(init_calls)
       IN  IF InitSkips
           THEN /\ init_calls' = [init_calls EXCEPT ![i] = ReturnedInit]
                /\ calls' = <<>>
                /\ done' = Done("init_backends", i, NotAMetric, "returned", "none", IdleFlush)
                /\ UNCHANGED <<is_initialized, per_rank_reduce_backends,
                               per_rank_no_reduce_backends, global_step,
                               next_backend, init_step>>
           ELSE /\ global_step' = step
                /\ init_step' = step
                /\ per_rank_reduce_backends' = <<>>
                /\ per_rank_no_reduce_backends' = <<>>
                /\ InitContinue(i, config, 1)
    /\ UNCHANGED <<accumulators, flush_calls, tasks, n_push, pending,
                   unflushed_sum, unflushed_count, last_flushed>>
    /\ UNCHANGED process_vars

\* init_backends called when no other init_backends call is suspended
InitBackends(config, step) == NoneInFlight(init_calls) /\ StartInit(config, step)

\* the awaited backend.init returns (or raises) and the loop goes on
InitResume(i, outcome) ==
    /\ init_calls[i].pc = "await_init"
    /\ LET frame == init_calls[i]
       IN  IF outcome = "error"
           THEN /\ init_calls' = [init_calls EXCEPT ![i] = ReturnedInit]
                /\ calls' = <<>>
                /\ done' = Done("init_backends", i, NotAMetric, "raised", "BackendError", IdleFlush)
                /\ UNCHANGED <<is_initialized, per_rank_reduce_backends,
                               per_rank_no_reduce_backends, next_backend>>
           ELSE /\ IF frame.backend.logging_mode = "per_rank_no_reduce"
                   THEN /\ per_rank_no_reduce_backends' =
                                Append(per_rank_no_reduce_backends, frame.backend)
                        /\ UNCHANGED per_rank_reduce_backends
                   ELSE /\ per_rank_reduce_backends' =
                                Append(per_rank_reduce_backends, frame.backend)
                        /\ UNCHANGED per_rank_no_reduce_backends
                /\ InitContinue(i, frame.config, frame.pos + 1)
    /\ UNCHANGED <<accumulators, global_step, flush_calls, tasks, n_push, pending,
                   unflushed_sum, unflushed_count, init_step, last_flushed>>
    /\ UNCHANGED process_vars

(***************************************************************************)
(* push                                                                    *)
(***************************************************************************)
\* push without its guard on the initialized flag
PushSkipsNever == FALSE

\* "if not self._is_initialized: ... return"
PushSkips == ~is_initialized

Task(backend, samples, step) == [samples |-> samples, backend |-> backend, step |-> step]

\* push streaming to the backends of both lists
StreamCallsAllBackends(metric) ==
    IF metric.reduction = "sample" THEN <<>>
    ELSE [i \in 1 .. Len(per_rank_no_reduce_backends \o per_rank_reduce_backends) |->
            Call((per_rank_no_reduce_backends \o per_rank_reduce_backends)[i].id,
                 "log_stream", metric, global_step)]

\* push reading the step of a flush that has not returned yet
StreamStepOfSuspendedFlush ==
    IF \E f \in DOMAIN flush_calls : flush_calls[f].pc \in {"await_batch", "await_samples"}
    THEN LET f == CHOOSE f \in DOMAIN flush_calls :
                        flush_calls[f].pc \in {"await_batch", "await_samples"}
         IN  flush_calls[f].global_step + 1
    ELSE global_step

\* "self.global_step" as push reads it
StreamStep == global_step

\* the synchronous log_stream calls of the loop over per_rank_no_reduce_backends
StreamCalls(metric) ==
    IF metric.reduction = "sample" THEN <<>>
    ELSE [i \in 1 .. Len(per_rank_no_reduce_backends) |->
            Call(per_rank_no_reduce_backends[i].id, "log_stream", metric, StreamStep)]

\* background tasks handed the bare sample instead of the one-row table
StreamTasksBareValue(metric) ==
    IF metric.reduction = "sample"
    THEN [i \in 1 .. Len(per_rank_no_reduce_backends) |->
            Task(per_rank_no_reduce_backends[i].id, metric.value, global_step)]
    ELSE <<>>

\* the asyncio.create_task(backend.log_samples(...)) of the same loop
StreamTasks(metric) ==
    IF metric.reduction = "sample"
    THEN [i \in 1 .. Len(per_rank_no_reduce_backends) |->
            Task(per_rank_no_reduce_backends[i].id,
                 (metric.key :> <<metric.value>>), StreamStep)]
    ELSE <<>>

\* push accumulating only what it did not stream
AccumulateUnlessStreamed(accs, metric) ==
    IF per_rank_no_reduce_backends # <<>> THEN accs
    ELSE [accs EXCEPT ![metric.key] = append(@, metric.value)]

\* "self.accumulators[key].append(metric.value)"
Accumulate(accs, metric) == [accs EXCEPT ![metric.key] = append(@, metric.value)]

\* push installing a new accumulator when the key's accumulator is of another kind
WithAccumulatorOfMetricKind(metric) ==
    IF /\ metric.key \in DOMAIN accumulators
       /\ accumulators[metric.key].reduction_type = metric.reduction
    THEN accumulators
    ELSE (metric.key :> accumulator_class(metric.reduction)) @@ accumulators

\* "if key not in self.accumulators: self.accumulators[key] = ..."
WithAccumulator(metric) ==
    IF metric.key \in DOMAIN accumulators THEN accumulators
    ELSE (metric.key :> accumulator_class(metric.reduction)) @@ accumulators

\* what an accepted append adds to the running sum / count of a sum-based kind
AppendedSum(acc, value) ==
    IF acc.reduction_type \in {"sum", "mean", "std"} THEN value.v ELSE 0

AppendedCount(acc) == IF acc.reduction_type \in {"mean", "std"} THEN 1 ELSE 0

\* the running sum / count a snapshot state carries away
SnapshotSum(state) ==
    CASE state.reduction_type = "sum" -> state.total
      [] state.reduction_type \in {"mean", "std"} -> state.sum
      [] OTHER -> 0

SnapshotCount(state) ==
    IF state.reduction_type \in {"mean", "std"} THEN state.count ELSE 0

WithKey(f, key, init) == IF key \in DOMAIN f THEN f ELSE (key :> init) @@ f

\* a push that takes a new key's accumulator out again when append raises
AfterRejectedAppendRolledBack(accs) == accumulators

\* append raises before it assigns to a field, and push has no handler: the
\* map stays as the insertion left it
AfterRejectedAppend(accs) == accs

\* push on the collector of this rank
PushBody(metric) ==
    /\ n_push < MaxPush
    /\ CallsMade < MaxCalls
    /\ n_push' = n_push + 1
    /\ IF PushSkips
       THEN /\ done' = Done("push", 0, metric, "returned", "none", IdleFlush)
            /\ calls' = <<>>
            /\ UNCHANGED <<accumulators, tasks, pending, unflushed_sum, unflushed_count>>
       ELSE IF ~IsMetric(metric)
       THEN /\ done' = Done("push", 0, metric, "raised", "TypeError", IdleFlush)
            /\ calls' = <<>>
            /\ UNCHANGED <<accumulators, tasks, pending, unflushed_sum, unflushed_count>>
       ELSE LET accs == WithAccumulator(metric)
                key == metric.key
                exc == append_error(accs[key], metric.value)
            IN  /\ calls' = StreamCalls(metric)
                /\ tasks' = tasks \o StreamTasks(metric)
                /\ IF exc = "none"
                   THEN /\ accumulators' = Accumulate(accs, metric)
                        /\ pending' = [WithKey(pending, key, <<>>) EXCEPT
                                            ![key] = Append(@, metric.value)]
                        /\ unflushed_sum' = [WithKey(unflushed_sum, key, 0) EXCEPT
                                            ![key] = @ + AppendedSum(accs[key], metric.value)]
                        /\ unflushed_count' = [WithKey(unflushed_count, key, 0) EXCEPT
                                            ![key] = @ + AppendedCount(accs[key])]
                        /\ done' = Done("push", 0, metric, "returned", "none", IdleFlush)
                   ELSE /\ accumulators' = AfterRejectedAppend(accs)
                        /\ pending' = WithKey(pending, key, <<>>)
                        /\ unflushed_sum' = WithKey(unflushed_sum, key, 0)
                        /\ unflushed_count' = WithKey(unflushed_count, key, 0)
                        /\ done' = Done("push", 0, metric, "raised", exc, IdleFlush)
    /\ UNCHANGED <<is_initialized, per_rank_reduce_backends,
                   per_rank_no_reduce_backends, global_step, next_backend,
                   init_calls, flush_calls, init_step, last_flushed>>

\* collector.push(metric) called on the collector itself
Push(metric) == PushBody(metric) /\ UNCHANGED process_vars

\* the event loop starts the oldest background task: its log_samples call runs
RunTask ==
    /\ tasks # <<>>
    /\ calls' = <<Call(Head(tasks).backend, "log_samples", Head(tasks).samples,
                       Head(tasks).step)>>
    /\ tasks' = Tail(tasks)
    /\ done' = Done("task", 0, NotAMetric, "returned", "none", IdleFlush)
    /\ UNCHANGED <<is_initialized, accumulators, per_rank_reduce_backends,
                   per_rank_no_reduce_backends, global_step, next_backend,
                   init_calls, flush_calls, n_push, pending, unflushed_sum,
                   unflushed_count, init_step, last_flushed>>
    /\ UNCHANGED process_vars

(***************************************************************************)
(* flush                                                                   *)
(***************************************************************************)
\* "if not self._is_initialized: ... return {}"
FlushSkips == ~is_initialized

\* flush without its guard on an empty accumulator map
NothingToFlushNever == FALSE

\* "if not self.accumulators: ... return {}"
NothingToFlush == DOMAIN accumulators = {}

\* flush going on to the snapshot whatever the collector's state
FlushReturnsEarlyNever == FALSE

\* the two "return {}" that precede the snapshot
FlushReturnsEarly == FlushSkips \/ NothingToFlush

\* the snapshot taken after the reset instead of before it
SnapshotAfterReset ==
    [key \in DOMAIN accumulators |-> get_state(reset(accumulators[key]))]

\* "states[key] = acc.get_state()" for every accumulator
Snapshot == [key \in DOMAIN accumulators |-> get_state(accumulators[key])]

\* flush without the reset
ResetNone == accumulators

\* "acc.reset()" for every accumulator, in the same loop
ResetAll == [key \in DOMAIN accumulators |-> reset(accumulators[key])]

\* the step counter set to the flushed step itself
SameGlobalStep(step) == step

\* "self.global_step = global_step + 1"
NextGlobalStep(step) == step + 1

\* "[m for m in reduced_metrics if m.reduction != Reduce.SAMPLE]"
ScalarMetrics(reduced_metrics) ==
    [key \in {k \in DOMAIN reduced_metrics : reduced_metrics[k].reduction # "sample"} |->
        reduced_metrics[key]]

\* "{m.key: m.value for m in reduced_metrics if m.reduction == Reduce.SAMPLE}"
SampleMetrics(reduced_metrics) ==
    [key \in {k \in DOMAIN reduced_metrics : reduced_metrics[k].reduction = "sample"} |->
        reduced_metrics[key].value]

\* flush returning the locally reduced values instead of the raw states
FlushResultReduced(frame) ==
    IF frame.return_state
    THEN [key \in DOMAIN frame.states |->
            get_reduced_value_from_states(frame.states[key].reduction_type,
                                          <<frame.states[key]>>)]
    ELSE NoKeys

\* what flush returns
FlushResult(frame) == IF frame.return_state THEN frame.states ELSE NoKeys

\* the loop calling log_batch without testing that scalar_metrics is non-empty
NextAwaitAlwaysBatch(frame, pos, phase) ==
    LET n == Len(per_rank_reduce_backends)
        has_sample == DOMAIN frame.sample_metrics # {}
        end == [pos |-> n + 1, phase |-> "end"]
    IN  IF pos > n THEN end
        ELSE IF phase = "batch" THEN [pos |-> pos, phase |-> "batch"]
        ELSE IF has_sample THEN [pos |-> pos, phase |-> "samples"]
        ELSE IF pos + 1 > n THEN end
        ELSE [pos |-> pos + 1, phase |-> "batch"]

\* where the loop over per_rank_reduce_backends awaits next, going on from
\* the given backend position and phase ("batch" before the log_batch test,
\* "samples" before the log_samples test); phase "end" when the loop is over
NextAwait(frame, pos, phase) ==
    LET n == Len(per_rank_reduce_backends)
        has_scalar == DOMAIN frame.scalar_metrics # {}
        has_sample == DOMAIN frame.sample_metrics # {}
        end == [pos |-> n + 1, phase |-> "end"]
    IN  IF pos > n \/ (~has_scalar /\ ~has_sample) THEN end
        ELSE IF phase = "batch"
        THEN [pos |-> pos, phase |-> IF has_scalar THEN "batch" ELSE "samples"]
        ELSE IF has_sample THEN [pos |-> pos, phase |-> "samples"]
        ELSE IF pos + 1 > n THEN end
        ELSE [pos |-> pos + 1, phase |-> "batch"]

\* flush f runs from the given loop position up to its next await or its return
FlushContinue(f, frame, pos, phase) ==
    LET nx == NextAwait(frame, pos, phase)
    IN  IF nx.phase = "end"
        THEN /\ global_step' = NextGlobalStep(frame.global_step)
             /\ last_flushed' = frame.global_step
             /\ flush_calls' = [flush_calls EXCEPT ![f] = ReturnedFlush]
             /\ calls' = <<>>
             /\ done' = Done("flush", f, NotAMetric, "returned", "none",
                             [frame EXCEPT !.pc = "returned", !.pos = nx.pos,
                                           !.result = FlushResult(frame)])
        ELSE LET backend == per_rank_reduce_backends[nx.pos].id
                 call == IF nx.phase = "batch"
                         THEN Call(backend, "log_batch", frame.scalar_metrics,
                                   frame.global_step)
                         ELSE Call(backend, "log_samples", frame.sample_metrics,
                                   frame.global_step)
             IN  /\ UNCHANGED <<global_step, last_flushed>>
                 /\ flush_calls' = [flush_calls EXCEPT ![f] =
                        [frame EXCEPT !.pc = IF nx.phase = "batch" THEN "await_batch"
                                             ELSE "await_samples",
                                      !.pos = nx.pos,
                                      !.issued = Append(@, call)]]
                 /\ calls' = <<call>>
                 /\ done' = Done("flush", f, NotAMetric, "suspended", "none", IdleFlush)

Flush(step, return_state) ==
    /\ HasUnused(flush_calls)
    /\ NoneInFlight(flush_calls)
    /\ CallsMade < MaxCalls
    /\ LET f == FirstUnused(flush_calls)
           reduced_metrics == IF per_rank_reduce_backends # <<>>
                              THEN reduce_metrics_states(<<Snapshot>>).metrics
                              ELSE NoKeys
           frame == [IdleFlush EXCEPT
                        !.global_step = step,
                        !.return_state = return_state,
                        !.effective = TRUE,
                        !.states = Snapshot,
                        !.scalar_metrics = ScalarMetrics(reduced_metrics),
                        !.sample_metrics = SampleMetrics(reduced_metrics),
                        !.vals = pending]
       IN  IF FlushReturnsEarly
           THEN /\ flush_calls' = [flush_calls EXCEPT ![f] = ReturnedFlush]
                /\ calls' = <<>>
                /\ done' = Done("flush", f, NotAMetric, "returned", "none",
                                [IdleFlush EXCEPT !.pc = "returned",
                                                  !.global_step = step,
                                                  !.return_state = return_state])
                /\ UNCHANGED <<accumulators, pending, unflushed_sum,
                               unflushed_count, global_step, last_flushed>>
           ELSE /\ accumulators' = ResetAll
                /\ pending' = [key \in DOMAIN pending |-> <<>>]
                /\ unflushed_sum' = [key \in DOMAIN unflushed_sum |->
                        unflushed_sum[key] - SnapshotSum(frame.states[key])]
                /\ unflushed_count' = [key \in DOMAIN unflushed_count |->
                        unflushed_count[key] - SnapshotCount(frame.states[key])]
                /\ FlushContinue(f, frame, 1, "batch")
    /\ UNCHANGED <<is_initialized, per_rank_reduce_backends,
                   per_rank_no_reduce_backends, next_backend, init_calls, tasks,
                   n_push, init_step>>
    /\ UNCHANGED process_vars

\* a flush that sets the step counter on its way out of a failed call too
StepAfterFailureAdvanced(frame) == frame.global_step + 1

\* the awaited call is in no try block: its exception leaves flush before
\* "self.global_step = global_step + 1" is reached
StepAfterFailure(frame) == global_step

\* the awaited backend call returns (or raises) and flush f goes on
FlushResume(f, outcome) ==
    /\ flush_calls[f].pc \in {"await_batch", "await_samples"}
    /\ LET frame == flush_calls[f]
       IN  IF outcome = "error"
           THEN /\ flush_calls' = [flush_calls EXCEPT ![f] = ReturnedFlush]
                /\ calls' = <<>>
                /\ done' = Done("flush", f, NotAMetric, "raised", "BackendError",
                                [frame EXCEPT !.pc = "raised"])
                /\ global_step' = StepAfterFailure(frame)
                /\ UNCHANGED last_flushed
           ELSE IF frame.pc = "await_batch"
           THEN FlushContinue(f, [frame EXCEPT !.completed = @ + 1], frame.pos, "samples")
           ELSE FlushContinue(f, [frame EXCEPT !.completed = @ + 1], frame.pos + 1, "batch")
    /\ UNCHANGED <<is_initialized, accumulators, per_rank_reduce_backends,
                   per_rank_no_reduce_backends, next_backend, init_calls, tasks,
                   n_push, pending, unflushed_sum, unflushed_count, init_step>>
    /\ UNCHANGED process_vars

Outcomes == {"ok", "error"}

Next ==
    \/ \E config \in Configs, step \in StepArgs : InitBackends(config, step)
    \/ \E i \in 1 .. MaxInit, outcome \in Outcomes : InitResume(i, outcome)
    \/ \E metric \in PushArgs : Push(metric)
    \/ RunTask
    \/ \E step \in StepArgs, return_state \in BOOLEAN : Flush(step, return_state)
    \/ \E f \in 1 .. MaxFlush, outcome \in Outcomes : FlushResume(f, outcome)

Spec == Init /\ [][Next]_vars

(***************************************************************************)
(* shutdown                                                                *)
(***************************************************************************)
\* "if not self._is_initialized: ... return"
ShutdownSkips == ~is_initialized

\* the stream-immediately backends finished first
ShutdownOrderStreamFirst == per_rank_no_reduce_backends \o per_rank_reduce_backends

\* "self.per_rank_reduce_backends + self.per_rank_no_reduce_backends": the
\* list the loop runs over, built when the loop starts
ShutdownOrder == per_rank_reduce_backends \o per_rank_no_reduce_backends

\* shutdown s runs from backend pos of its list up to its next await or its return
ShutdownContinue(s, frame, pos) ==
    IF pos > Len(frame.backends)
    THEN /\ shutdown_calls' = [shutdown_calls EXCEPT ![s] = ReturnedShutdown]
         /\ calls' = <<>>
         /\ finished' = finished
         /\ done' = Done("shutdown", s, NotAMetric, "returned", "none",
                         [frame EXCEPT !.pc = "returned", !.pos = pos])
    ELSE LET call == Call(frame.backends[pos].id, "finish", "", 0)
         IN  /\ shutdown_calls' = [shutdown_calls EXCEPT ![s] =
                    [frame EXCEPT !.pc = "await_finish", !.pos = pos,
                                  !.issued = Append(@, call)]]
             /\ calls' = <<call>>
             /\ finished' = finished \cup {frame.backends[pos].id}
             /\ done' = Done("shutdown", s, NotAMetric, "suspended", "none", IdleFlush)

\* shutdown awaiting the tasks push created before it goes on
ShutdownTasksJoined == <<>>

\* shutdown has no statement on the tasks push created (the collector keeps
\* no reference to them): they stay scheduled
ShutdownTasks == tasks

Shutdown ==
    /\ HasUnused(shutdown_calls)
    /\ NoneInFlight(shutdown_calls)
    /\ CallsMade < MaxCalls
    /\ tasks' = ShutdownTasks
    /\ LET s == FirstUnused(shutdown_calls)
       IN  IF ShutdownSkips
           THEN /\ shutdown_calls' = [shutdown_calls EXCEPT ![s] = ReturnedShutdown]
                /\ calls' = <<>>
                /\ finished' = finished
                /\ done' = Done("shutdown", s, NotAMetric, "returned", "none",
                                [IdleShutdown EXCEPT !.pc = "returned"])
           ELSE ShutdownContinue(s, [IdleShutdown EXCEPT !.backends = ShutdownOrder], 1)
    /\ UNCHANGED <<is_initialized, accumulators, per_rank_reduce_backends,
                   per_rank_no_reduce_backends, global_step, next_backend,
                   init_calls, flush_calls, n_push, pending, unflushed_sum,
                   unflushed_count, init_step, last_flushed, instances,
                   FORGE_DISABLE_METRICS, standalone_vars>>

\* the awaited backend.finish returns (or raises) and shutdown s goes on
ShutdownResume(s, outcome) ==
    /\ shutdown_calls[s].pc = "await_finish"
    /\ LET frame == shutdown_calls[s]
       IN  IF outcome = "error"
           THEN /\ shutdown_calls' = [shutdown_calls EXCEPT ![s] = ReturnedShutdown]
                /\ calls' = <<>>
                /\ finished' = finished
                /\ done' = Done("shutdown", s, NotAMetric, "raised", "BackendError",
                                [frame EXCEPT !.pc = "raised"])
           ELSE ShutdownContinue(s, [frame EXCEPT !.completed = @ + 1], frame.pos + 1)
    /\ UNCHANGED <<is_initialized, accumulators, per_rank_reduce_backends,
                   per_rank_no_reduce_backends, global_step, next_backend,
                   init_calls, flush_calls, tasks, n_push, pending, unflushed_sum,
                   unflushed_count, init_step, last_flushed, instances,
                   FORGE_DISABLE_METRICS, standalone_vars>>

(***************************************************************************)
(* The collector registry and record_metric                                *)
(*                                                                         *)
(* The variables hold the fields of the collector of rank ThisRank; the    *)
(* collectors of other ranks are never initialized here, so a push on one  *)
(* of them returns at its guard.                                           *)
(***************************************************************************)
\* "rank not in cls._instances"
IsNewRank(rank) == rank \notin DOMAIN instances

\* the object __new__ returns for the rank
InstanceFor(rank) ==
    IF IsNewRank(rank) THEN Instance(Cardinality(DOMAIN instances) + 1, rank)
    ELSE instances[rank]

\* cls._instances after __new__
Registered(rank) ==
    IF IsNewRank(rank) THEN (rank :> InstanceFor(rank)) @@ instances ELSE instances

\* "if inst._singleton_rank != rank: raise ValueError"
NewRaises(rank) == ~IsNewRank(rank) /\ instances[rank].singleton_rank # rank

\* __init__ without its guard
InitReturnsEarlyNever(rank) == FALSE

\* "if hasattr(self, "_is_initialized"): return": the attribute exists on an
\* object that has been through __init__, that is on every registered one
InitReturnsEarly(rank) == ~IsNewRank(rank)

\* the assignments of __init__ to the fields of the collector of this rank
AssignFields ==
    /\ accumulators' = NoKeys
    /\ per_rank_reduce_backends' = <<>>
    /\ per_rank_no_reduce_backends' = <<>>
    /\ global_step' = 0
    /\ is_initialized' = FALSE

RankArg(rank) == [class |-> "int", rank |-> rank]

\* MetricCollector() while current_rank().rank is rank: __new__, then __init__
MetricCollector(rank) ==
    /\ calls' = <<>>
    /\ IF NewRaises(rank)
       THEN /\ done' = Done("MetricCollector", 0, RankArg(rank), "raised", "ValueError",
                            IdleFlush)
            /\ UNCHANGED <<instances, accumulators, per_rank_reduce_backends,
                           per_rank_no_reduce_backends, global_step, is_initialized>>
       ELSE /\ instances' = Registered(rank)
            /\ done' = Done("MetricCollector", InstanceFor(rank).id, RankArg(rank),
                            "returned", "none", IdleFlush)
            /\ IF rank = ThisRank /\ ~InitReturnsEarly(rank)
               THEN AssignFields
               ELSE UNCHANGED <<accumulators, per_rank_reduce_backends,
                                per_rank_no_reduce_backends, global_step,
                                is_initialized>>
    /\ UNCHANGED <<next_backend, init_calls, flush_calls, tasks, n_push, pending,
                   unflushed_sum, unflushed_count, init_step, last_flushed,
                   shutdown_calls, finished, FORGE_DISABLE_METRICS, standalone_vars>>

\* the characters of the strings the environment variable is set to
UpperCase == <<"A", "E", "F", "L", "R", "S", "T", "U">>

LowerCase == <<"a", "e", "f", "l", "r", "s", "t", "u">>

LowerChar(c) ==
    IF \E i \in DOMAIN UpperCase : UpperCase[i] = c
    THEN LowerCase[CHOOSE i \in DOMAIN UpperCase : UpperCase[i] = c]
    ELSE c

\* str.lower()
Lower(string) == [i \in DOMAIN string |-> LowerChar(string[i])]

\* os.getenv(name, default)
getenv(variable, default) == IF variable.set THEN variable.value ELSE default

\* record_metric comparing the variable with "true" as it is written
MetricsDisabledIfSpelledLowerCase ==
    getenv(FORGE_DISABLE_METRICS, <<"f", "a", "l", "s", "e">>) = <<"t", "r", "u", "e">>

\* "os.getenv("FORGE_DISABLE_METRICS", "false").lower() == "true""
MetricsDisabled ==
    Lower(getenv(FORGE_DISABLE_METRICS, <<"f", "a", "l", "s", "e">>)) = <<"t", "r", "u", "e">>

\* record_metric(key, value, reduction) while current_rank().rank is rank
RecordMetric(rank, key, value, reduction) ==
    IF MetricsDisabled
    THEN /\ done' = Done("record_metric", 0, Metric(key, value, reduction), "returned",
                         "none", IdleFlush)
         /\ calls' = <<>>
         /\ UNCHANGED <<is_initialized, accumulators, per_rank_reduce_backends,
                        per_rank_no_reduce_backends, global_step, next_backend,
                        init_calls, flush_calls, tasks, n_push, pending, unflushed_sum,
                        unflushed_count, init_step, last_flushed, shutdown_calls,
                        finished, instances, FORGE_DISABLE_METRICS, standalone_vars>>
    ELSE /\ ~NewRaises(rank)
         /\ instances' = Registered(rank)
         /\ UNCHANGED <<shutdown_calls, finished, FORGE_DISABLE_METRICS,
                        standalone_vars>>
         /\ IF rank = ThisRank
            THEN PushBody(Metric(key, value, reduction))
            ELSE /\ done' = Done("record_metric", InstanceFor(rank).id,
                                 Metric(key, value, reduction), "returned", "none",
                                 IdleFlush)
                 /\ calls' = <<>>
                 /\ UNCHANGED <<is_initialized, accumulators, per_rank_reduce_backends,
                                per_rank_no_reduce_backends, global_step, next_backend,
                                init_calls, flush_calls, tasks, n_push, pending,
                                unflushed_sum, unflushed_count, init_step,
                                last_flushed>>

\* record_episode_sample(table_name, episode): the episode's fields as a sample
RecordEpisodeSample(rank, table_name, episode) ==
    RecordMetric(rank, table_name, Sample(episode), "sample")

\* the values the environment variable may have when the process starts
EnvValues ==
    {Unset, SetTo(<<>>), SetTo(<<"1">>),
     SetTo(<<"f", "a", "l", "s", "e">>), SetTo(<<"F", "a", "l", "s", "e">>),
     SetTo(<<"t", "r", "u", "e">>), SetTo(<<"T", "r", "u", "e">>),
     SetTo(<<"T", "R", "U", "E">>), SetTo(<<"t", "R", "u", "E">>)}

\* no collector has been constructed yet
InitRegistry ==
    /\ InitFields
    /\ instances = NoKeys
    /\ FORGE_DISABLE_METRICS \in EnvValues
    /\ NoStandalone

\* the collector of this rank exists
Constructed == ThisRank \in DOMAIN instances

\* the configs init_backends is given while the registry is followed
RegistryConfigs == {<<ConfigEntry("console", m)>> : m \in LoggingMode \ {"global_reduce"}}

NextRegistry ==
    \/ \E rank \in Ranks : MetricCollector(rank)
    \/ \E rank \in Ranks, value \in {Num(1)}, reduction \in {"mean"} :
            RecordMetric(rank, ScalarKey, value, reduction)
    \/ \E rank \in Ranks, episode \in SampleRewards :
            RecordEpisodeSample(rank, SampleKey, episode)
    \/ Constructed /\ \E config \in RegistryConfigs, step \in StepArgs :
            InitBackends(config, step)
    \/ \E i \in 1 .. MaxInit, outcome \in Outcomes : InitResume(i, outcome)
    \/ RunTask
    \/ Constructed /\ \E step \in StepArgs, return_state \in BOOLEAN :
            Flush(step, return_state)
    \/ \E f \in 1 .. MaxFlush, outcome \in Outcomes : FlushResume(f, outcome)

SpecRegistry == InitRegistry /\ [][NextRegistry]_vars

\* the metrics pushed while the collector's lifecycle is followed to shutdown
LifecyclePushArgs ==
    {Metric(ScalarKey, Num(1), "sum"), Metric(SampleKey, Sample(1), "sample")}

NextLifecycle ==
    \/ \E config \in Configs, step \in StepArgs : InitBackends(config, step)
    \/ \E i \in 1 .. MaxInit, outcome \in Outcomes : InitResume(i, outcome)
    \/ \E metric \in LifecyclePushArgs : Push(metric)
    \/ RunTask
    \/ \E step \in StepArgs, return_state \in BOOLEAN : Flush(step, return_state)
    \/ \E f \in 1 .. MaxFlush, outcome \in Outcomes : FlushResume(f, outcome)
    \/ Shutdown
    \/ \E s \in 1 .. MaxShutdown, outcome \in Outcomes : ShutdownResume(s, outcome)

SpecLifecycle == Init /\ [][NextLifecycle]_vars

(***************************************************************************)
(* A TopBottomKFilter on its own: any sequence of filter_append,           *)
(* filter_flush and reset on a filter constructed with any top_k, bottom_k *)
(***************************************************************************)
collector_vars ==
    <<is_initialized, accumulators, per_rank_reduce_backends,
      per_rank_no_reduce_backends, global_step, next_backend, init_calls,
      flush_calls, tasks, calls, done, n_push, pending, unflushed_sum,
      unflushed_count, init_step, last_flushed, shutdown_calls, finished,
      instances, FORGE_DISABLE_METRICS>>

\* no collector has been constructed
NoCollector ==
    /\ InitFields
    /\ instances = NoKeys
    /\ FORGE_DISABLE_METRICS = Unset

\* the values of top_k and bottom_k a filter is constructed with
KValues == -1 .. MaxK

\* the values under the filter's key
Rewards == {1, 3, 5, 7, 9}

FilterSamples == {Sample(r) : r \in Rewards}

InitFilter ==
    /\ NoCollector
    /\ filter \in {TopBottomKFilter(top_k, bottom_k) : top_k \in KValues, bottom_k \in KValues}
    /\ seen = <<>>
    /\ flushed = NoResult
    /\ NoProcesses
    /\ NoWandb

FilterAppend(sample) ==
    /\ filter.counter < MaxAppend
    /\ filter' = filter_append(filter, sample)
    /\ seen' = Append(seen, sample)
    /\ flushed' = NoResult
    /\ UNCHANGED <<collector_vars, merge_vars, wandb_vars>>

FilterFlush ==
    /\ flushed' = Returned(filter_flush(filter))
    /\ UNCHANGED <<collector_vars, filter, seen, merge_vars, wandb_vars>>

FilterReset ==
    /\ filter' = filter_reset(filter)
    /\ seen' = <<>>
    /\ flushed' = NoResult
    /\ UNCHANGED <<collector_vars, merge_vars, wandb_vars>>

NextFilter ==
    \/ \E sample \in FilterSamples : FilterAppend(sample)
    \/ FilterFlush
    \/ FilterReset

SpecFilter == InitFilter /\ [][NextFilter]_vars

(***************************************************************************)
(* Accumulators on their own: each process holds its accumulators, appends *)
(* to them and resets them as push and flush do, and the states the        *)
(* processes hand out are merged by the static merge of their kind         *)
(***************************************************************************)
Procs == 1 .. MaxProcs

\* the lists of distinct processes whose states are merged, in every order
Orders ==
    {order \in UNION {[1 .. n -> Procs] : n \in 1 .. MaxProcs} :
        \A i, j \in DOMAIN order : order[i] = order[j] => i = j}

KeyOf(kind) == IF kind = "sample" THEN SampleKey ELSE ScalarKey

\* the values appended to an accumulator of the kind
MergeValues(kind) ==
    IF kind = "sample" THEN {Sample(r) : r \in NumValues} ELSE {Num(v) : v \in NumValues}

MergeArgs(kinds) ==
    UNION {{Metric(KeyOf(kind), value, kind) : value \in MergeValues(kind)} :
                kind \in kinds}

\* every process holds one new accumulator, all of the same kind
InitMerge ==
    /\ NoCollector
    /\ NoFilter
    /\ NoWandb
    /\ \E kind \in Reduce :
            local = [p \in Procs |-> (KeyOf(kind) :> accumulator_class(kind))]
    /\ parts = [p \in Procs |-> <<>>]
    /\ merged = NoResult

LocalAppended == SumSeq([p \in Procs |-> Len(parts[p])])

\* process p: the accumulator of the key is created if missing, and appended to
LocalAppend(p, metric) ==
    LET accs == WithKey(local[p], metric.key, accumulator_class(metric.reduction))
    IN  /\ LocalAppended < MaxLocalAppend
        /\ append_error(accs[metric.key], metric.value) = "none"
        /\ local' = [local EXCEPT ![p] = Accumulate(accs, metric)]
        /\ parts' = [parts EXCEPT ![p] = Append(@, metric)]
        /\ merged' = NoResult
        /\ UNCHANGED <<collector_vars, filter_vars, wandb_vars>>

\* process p resets all its accumulators
LocalReset(p) ==
    /\ local' = [local EXCEPT ![p] = [key \in DOMAIN local[p] |-> reset(local[p][key])]]
    /\ parts' = [parts EXCEPT ![p] = <<>>]
    /\ merged' = NoResult
    /\ UNCHANGED <<collector_vars, filter_vars, wandb_vars>>

\* cls.get_reduced_value_from_states on the get_state() of the key's accumulator of
\* each process of the list, cls being the class of those accumulators
MergeStates(key, order) ==
    /\ \A i \in DOMAIN order : key \in DOMAIN local[order[i]]
    /\ LET states == [i \in DOMAIN order |-> get_state(local[order[i]][key])]
           cls == local[order[1]][key].reduction_type
       IN  merged' = [value |-> get_reduced_value_from_states(cls, states), key |-> key,
                      op |-> "get_reduced_value_from_states", returned |-> TRUE,
                      order |-> order]
    /\ UNCHANGED <<collector_vars, filter_vars, wandb_vars, local, parts>>

\* process p holds an accumulator of the kind under the key
HoldsKind(p, key, kind) ==
    key \in DOMAIN local[p] /\ local[p][key].reduction_type = kind

NextMerge ==
    \/ \E p \in Procs, metric \in MergeArgs(Reduce) :
            /\ HoldsKind(p, metric.key, metric.reduction)
            /\ LocalAppend(p, metric)
    \/ \E p \in Procs : LocalReset(p)
    \/ \E key \in {ScalarKey, SampleKey}, order \in Orders : MergeStates(key, order)

SpecMerge == InitMerge /\ [][NextMerge]_vars

(***************************************************************************)
(* reduce_metrics_states on the maps the processes hand out: every process *)
(* starts without accumulators and creates them by key as push does, so    *)
(* two processes may hold accumulators of different kinds under one key    *)
(***************************************************************************)
InitReduce ==
    /\ NoCollector
    /\ NoFilter
    /\ NoWandb
    /\ local = [p \in Procs |-> NoKeys]
    /\ parts = [p \in Procs |-> <<>>]
    /\ merged = NoResult

\* the metrics the processes record
ReduceArgs ==
    {Metric(ScalarKey, Num(1), "mean"), Metric(ScalarKey, Num(1), "sum"),
     Metric(SampleKey, Sample(1), "sample")}

\* what flush(return_state=True) of process p would return: key -> get_state()
LocalStates(p) == [key \in DOMAIN local[p] |-> get_state(local[p][key])]

\* reduce_metrics_states on the maps of the processes of the list, in its order
ReduceStates(order) ==
    /\ LET states == [i \in DOMAIN order |-> LocalStates(order[i])]
           result == reduce_metrics_states(states)
       IN  merged' = [raised |-> result.raised, metrics |-> result.metrics,
                      op |-> "reduce_metrics_states", returned |-> TRUE,
                      order |-> order]
    /\ UNCHANGED <<collector_vars, filter_vars, wandb_vars, local, parts>>

NextReduce ==
    \/ \E p \in Procs, metric \in ReduceArgs : LocalAppend(p, metric)
    \/ \E order \in Orders \cup {<<>>} : ReduceStates(order)

SpecReduce == InitReduce /\ [][NextReduce]_vars

(***************************************************************************)
(* WandbBackend, and init_backends on configs that name it. wandb.init     *)
(* either returns a run or, when the service is not reachable, raises.     *)
(***************************************************************************)
Dict(items) == [class |-> "dict", items |-> items]

\* "if metadata_per_primary_backend: primary_metadata = ....get(backend_name, {})"
PrimaryMetadata(metadata, backend_name) ==
    IF metadata # None /\ DOMAIN metadata.items # {}
    THEN IF backend_name \in DOMAIN metadata.items
         THEN metadata.items[backend_name]
         ELSE NoKeys
    ELSE NoKeys

\* WandbBackend.__init__
WandbBackend(logger_backend_config) ==
    [name |-> None,
     logging_mode |-> logger_backend_config.logging_mode,
     run |-> None,
     per_rank_share_run |->
        IF "per_rank_share_run" \in DOMAIN logger_backend_config
        THEN logger_backend_config.per_rank_share_run
        ELSE FALSE,
     tables |-> NoKeys]

\* get_actor_name_with_rank(process_name) on this rank
ActorNameWithRank == [value |-> "actor_r0", class |-> "str"]

ControllerName == [value |-> "Controller", class |-> "str"]

\* the id wandb gives a run that is not given one
GeneratedRunId == "generated"

\* a run that "run.finish()" has not closed
Run(id, settings) ==
    [class |-> "Run", finished |-> FALSE, id |-> id, settings |-> settings]

\* what a coroutine of the backend leaves: the object and the exception raised
Outcome(self, raised) == [raised |-> raised, object |-> self]

\* "self.run = wandb.init(...)"
wandb_init(self, id, settings, reachable) ==
    IF reachable
    THEN Outcome([self EXCEPT !.run = Run(id, settings)], "none")
    ELSE Outcome(self, "CommError")

init_global(self, reachable) == wandb_init(self, GeneratedRunId, "default", reachable)

init_per_rank(self, reachable) == wandb_init(self, GeneratedRunId, "default", reachable)

init_shared_global(self, reachable) ==
    wandb_init(self, GeneratedRunId, "shared_primary", reachable)

\* a shared local init that takes whatever .get("shared_run_id") returns
SharedIdIsNoneNever(primary_metadata) == FALSE

\* "shared_id = primary_metadata.get("shared_run_id")", "if shared_id is None"
SharedIdIsNone(primary_metadata) == "shared_run_id" \notin DOMAIN primary_metadata

init_shared_local(self, primary_metadata, reachable) ==
    IF SharedIdIsNone(primary_metadata)
    THEN Outcome(self, "ValueError")
    ELSE wandb_init(self,
                    IF "shared_run_id" \in DOMAIN primary_metadata
                    THEN primary_metadata.shared_run_id
                    ELSE GeneratedRunId,
                    "shared_secondary", reachable)

\* a GLOBAL_REDUCE backend that inits under every role
SkipsGlobalInitNever(role) == FALSE

\* "if role != BackendRole.GLOBAL: ... return"
SkipsGlobalInit(role) == role # BackendRoleGlobal

\* WandbBackend.init
WandbBackend_init(self, role, primary_logger_metadata, reachable) ==
    IF role \notin {BackendRoleGlobal, BackendRoleLocal}
    THEN Outcome(self, "ValueError")
    ELSE LET named == [self EXCEPT !.name = IF role = BackendRoleLocal
                                             THEN ActorNameWithRank
                                             ELSE ControllerName]
         IN  IF named.logging_mode = "global_reduce"
             THEN IF SkipsGlobalInit(role)
                  THEN Outcome(named, "none")
                  ELSE init_global(named, reachable)
             ELSE IF role = BackendRoleGlobal /\ named.per_rank_share_run
             THEN init_shared_global(named, reachable)
             ELSE IF role = BackendRoleLocal
             THEN IF named.per_rank_share_run
                  THEN init_shared_local(
                            named,
                            IF primary_logger_metadata = None
                            THEN NoKeys
                            ELSE primary_logger_metadata,
                            reachable)
                  ELSE init_per_rank(named, reachable)
             ELSE Outcome(named, "none")

WandbEntry(mode, share) ==
    [name |-> "wandb", logging_mode |-> mode, per_rank_share_run |-> share]

\* configs that name wandb, alone or after console
WandbConfigs ==
    {<<ConfigEntry("wandb", m)>> : m \in LoggingMode}
    \cup {<<WandbEntry(m, share)>> : m \in LoggingMode, share \in BOOLEAN}
    \cup {<<ConfigEntry("console", "per_rank_reduce"), WandbEntry(m, share)>> :
            m \in LoggingMode, share \in BOOLEAN}

\* what the controller collected from its primary backends
MetadataArgs ==
    {None, Dict(NoKeys), Dict("wandb" :> NoKeys),
     Dict("wandb" :> ("shared_run_id" :> "abc123"))}

InitWandb ==
    /\ InitFields
    /\ instances = (ThisRank :> Instance(1, ThisRank))
    /\ FORGE_DISABLE_METRICS = Unset
    /\ NoFilter
    /\ NoProcesses
    /\ metadata_per_primary_backend \in MetadataArgs
    /\ wandb_backends = NoKeys
    /\ wandb_done = WandbDone("none", NoKeys, <<>>, None)

\* the WandbBackend that init_backends call i instantiated runs its init, which
\* init_backends is awaiting
WandbBackendInit(i, reachable) ==
    /\ init_calls[i].pc = "await_init"
    /\ init_calls[i].backend.name = "wandb"
    /\ init_calls[i].backend.id \notin DOMAIN wandb_backends
    /\ LET frame == init_calls[i]
           backend_config == frame.config[frame.pos]
           primary_metadata ==
                PrimaryMetadata(metadata_per_primary_backend, frame.backend.name)
       IN  wandb_backends' =
                (frame.backend.id :>
                    WandbBackend_init(WandbBackend(backend_config), BackendRoleLocal,
                                      primary_metadata, reachable))
                @@ wandb_backends
    /\ UNCHANGED <<collector_vars, filter_vars, merge_vars, metadata_per_primary_backend,
                   wandb_done>>

\* the backend init that init_backends call i awaits has run
AwaitedInitOver(i) ==
    /\ init_calls[i].pc = "await_init"
    /\ init_calls[i].backend.name = "wandb" =>
            init_calls[i].backend.id \in DOMAIN wandb_backends

\* how the awaited init ended: ConsoleBackend.init does not raise
AwaitedInitOutcome(i) ==
    IF init_calls[i].backend.name = "wandb"
          /\ wandb_backends[init_calls[i].backend.id].raised # "none"
    THEN "error"
    ELSE "ok"

NextWandb ==
    \/ \E config \in WandbConfigs, step \in StepArgs : InitBackends(config, step)
    \/ \E i \in 1 .. MaxInit, reachable \in BOOLEAN : WandbBackendInit(i, reachable)
    \/ \E i \in 1 .. MaxInit : AwaitedInitOver(i) /\ InitResume(i, AwaitedInitOutcome(i))

SpecWandb == InitWandb /\ [][NextWandb]_vars

(***************************************************************************)
(* A WandbBackend on its own: constructed, its init run under any role,    *)
(* and its methods called in any order. What a method hands to the run is  *)
(* kept as the calls it makes on the run, in order.                        *)
(***************************************************************************)
\* "self.run.log(log_data)"
RunLog(log_data) == [op |-> "log", arg |-> log_data]

\* "self.run.finish()"
RunFinish == [op |-> "finish", arg |-> NoKeys]

\* "if not self.run" is the negation of this
HasRun(self) == self.run # None

\* a log_batch that does not look at self.run
log_batch_unguarded(self, metrics, step) ==
    <<RunLog(("step" :> step))>>

\* WandbBackend.log_batch: the calls made on the run. A later metric of the
\* same key, or one whose key is "step", overwrites the entry
log_batch(self, metrics, step) ==
    IF ~HasRun(self)
    THEN <<>>
    ELSE LET keys == {metrics[i].key : i \in DOMAIN metrics}
             last(k) == CHOOSE i \in DOMAIN metrics :
                            /\ metrics[i].key = k
                            /\ \A j \in DOMAIN metrics : metrics[j].key = k => j <= i
         IN  <<RunLog([k \in keys \cup {"step"} |->
                            IF k \in keys THEN metrics[last(k)].value ELSE step])>>

\* WandbBackend.log_stream: the calls made on the run ("_timestamp" is left out)
log_stream(self, metric, step) ==
    IF ~HasRun(self)
    THEN <<>>
    ELSE <<RunLog([k \in {metric.key, "global_step"} |->
                        IF k = "global_step" THEN step ELSE metric.value])>>

\* the keys of a sample dict, in the order it was built in
SampleColumns == <<"episode_id", "reward", "response">>

\* "list(table_rows[0].keys())"
KeysOf(sample) == SelectSeq(SampleColumns, LAMBDA c : c \in DOMAIN sample)

\* wandb.Table(columns=, data=, log_mode=)
Table(columns, data, log_mode) ==
    [columns |-> columns, data |-> data, log_mode |-> log_mode]

\* "values = [s.get(c) for c in table.columns]" and table.add_data of them, for
\* each of table_rows
AddData(table, table_rows) ==
    [table EXCEPT !.data =
        @ \o [r \in DOMAIN table_rows |->
                [c \in DOMAIN table.columns |->
                    IF table.columns[c] \in DOMAIN table_rows[r]
                    THEN table_rows[r][table.columns[c]]
                    ELSE None]]]

\* an item of self._tables, which keeps its items in insertion order
TableItem(name, table) == [name |-> name, table |-> table]

\* a log_samples that finds no table under any name
TableIndexNever(tables, table_name) == 0

\* "table_name not in self._tables" is TableIndex = 0; else where the table is
TableIndex(tables, table_name) ==
    IF \E i \in DOMAIN tables : tables[i].name = table_name
    THEN CHOOSE i \in DOMAIN tables : tables[i].name = table_name
    ELSE 0

\* "self._tables[table_name] = table": a new key goes last, an old one keeps
\* its place
SetTable(tables, table_name, table) ==
    IF \E i \in DOMAIN tables : tables[i].name = table_name
    THEN [i \in DOMAIN tables |->
            IF tables[i].name = table_name THEN TableItem(table_name, table)
            ELSE tables[i]]
    ELSE Append(tables, TableItem(table_name, table))

\* what a method leaves: the object and the calls made on the run
Wrote(self, writes) == [writes |-> writes, object |-> self]

\* the loop of WandbBackend.log_samples over samples.items(), from item pos on
RECURSIVE LogSampleItems(_, _, _, _)
LogSampleItems(self, samples, pos, writes) ==
    IF pos > Len(samples)
    THEN Wrote(self, writes)
    ELSE LET table_name == samples[pos].key
             table_rows == samples[pos].value
         IN  IF table_rows = <<>>
             THEN LogSampleItems(self, samples, pos + 1, writes)
             ELSE LET idx == TableIndex(self.tables, table_name)
                      table == IF idx = 0
                               THEN Table(KeysOf(table_rows[1]), <<>>, "INCREMENTAL")
                               ELSE self.tables[idx].table
                      added == AddData(table, table_rows)
                      logged == RunLog((table_name \o "_table") :> added)
                  IN  LogSampleItems(
                        [self EXCEPT !.tables = SetTable(@, table_name, added)],
                        samples, pos + 1, Append(writes, logged))

\* WandbBackend.log_samples
log_samples(self, samples, step) ==
    IF ~HasRun(self)
    THEN Wrote(self, <<>>)
    ELSE LogSampleItems(self, samples, 1, <<>>)

\* WandbBackend.get_metadata_for_secondary_ranks
get_metadata_for_secondary_ranks(self) ==
    IF HasRun(self) /\ self.per_rank_share_run
    THEN "shared_run_id" :> self.run.id
    ELSE NoKeys

\* WandbBackend.finish
finish(self) ==
    IF HasRun(self)
    THEN Wrote([self EXCEPT !.run = [@ EXCEPT !.finished = TRUE]],
               [i \in DOMAIN self.tables |->
                    RunLog(self.tables[i].name :>
                            Table(self.tables[i].table.columns,
                                  self.tables[i].table.data, "IMMUTABLE"))]
               \o <<RunFinish>>)
    ELSE Wrote(self, <<>>)

\* the rows a sample table may hold: log_samples is not called beyond it
MaxRows == 3

\* the one backend of this specification, under the name its config gives
TheBackend == "wandb"

InvalidRole == "worker"

\* the metadata a caller passes to init
PrimaryMetadataArgs == {None, NoKeys, "shared_run_id" :> "abc123"}

OtherSampleKey == "eval/sample"

SampleItem(key, value) == [value |-> value, key |-> key]

\* a sample that lacks the reward column and has one of its own
PartialSample == [type |-> "dict", episode_id |-> 2, response |-> 4]

\* the samples a caller passes to log_samples: dicts of one or two names,
\* with and without rows
SamplesArgs ==
    {<<>>,
     <<SampleItem(SampleKey, <<>>)>>,
     <<SampleItem(SampleKey, <<Sample(1)>>)>>,
     <<SampleItem(SampleKey, <<PartialSample>>)>>,
     <<SampleItem(SampleKey, <<Sample(3), PartialSample>>)>>,
     <<SampleItem(OtherSampleKey, <<>>), SampleItem(SampleKey, <<Sample(5)>>)>>,
     <<SampleItem(OtherSampleKey, <<PartialSample>>),
       SampleItem(SampleKey, <<Sample(1)>>)>>}

BatchArgs ==
    {<<>>,
     <<Metric(ScalarKey, Num(1), "mean")>>,
     <<Metric(ScalarKey, Num(1), "mean"), Metric(ScalarKey, Num(3), "max")>>}

\* the rows the tables of self hold
RowsHeld(self, samples) ==
    LET rows(name) ==
            LET idx == TableIndex(self.tables, name)
            IN  IF idx = 0 THEN 0 ELSE Len(self.tables[idx].table.data)
        more(name) ==
            LET at == {i \in DOMAIN samples : samples[i].key = name}
            IN  IF at = {} THEN 0 ELSE Len(samples[CHOOSE i \in at : TRUE].value)
    IN  [name \in {SampleKey, OtherSampleKey} |-> rows(name) + more(name)]

InitBackend ==
    /\ NoCollector
    /\ NoFilter
    /\ NoProcesses
    /\ NoWandb

\* "backend = WandbBackend(logger_backend_config)"
BackendNew(logger_backend_config) ==
    /\ wandb_backends = NoKeys
    /\ wandb_backends' = (TheBackend :> Outcome(WandbBackend(logger_backend_config), "none"))
    /\ wandb_done' = WandbDone("__init__", logger_backend_config, <<>>, None)
    /\ UNCHANGED <<collector_vars, filter_vars, merge_vars, metadata_per_primary_backend>>

\* "await backend.init(role=, primary_logger_metadata=)", which the callers
\* make on a backend they have just constructed
BackendInit(role, primary_logger_metadata, reachable) ==
    /\ TheBackend \in DOMAIN wandb_backends
    /\ wandb_done.op = "__init__"
    /\ wandb_backends' =
            (TheBackend :> WandbBackend_init(wandb_backends[TheBackend].object, role,
                                             primary_logger_metadata, reachable))
    /\ wandb_done' =
            WandbDone("init",
                      [role |-> role, primary_logger_metadata |-> primary_logger_metadata],
                      <<>>, None)
    /\ UNCHANGED <<collector_vars, filter_vars, merge_vars, metadata_per_primary_backend>>

BackendLogBatch(metrics, step) ==
    /\ TheBackend \in DOMAIN wandb_backends
    /\ wandb_backends' =
            (TheBackend :> Outcome(wandb_backends[TheBackend].object, "none"))
    /\ wandb_done' =
            WandbDone("log_batch", metrics,
                      log_batch(wandb_backends[TheBackend].object, metrics, step),
                      None)
    /\ UNCHANGED <<collector_vars, filter_vars, merge_vars, metadata_per_primary_backend>>

BackendLogStream(metric, step) ==
    /\ TheBackend \in DOMAIN wandb_backends
    /\ wandb_backends' =
            (TheBackend :> Outcome(wandb_backends[TheBackend].object, "none"))
    /\ wandb_done' =
            WandbDone("log_stream", metric,
                      log_stream(wandb_backends[TheBackend].object, metric, step),
                      None)
    /\ UNCHANGED <<collector_vars, filter_vars, merge_vars, metadata_per_primary_backend>>

BackendLogSamples(samples, step) ==
    /\ TheBackend \in DOMAIN wandb_backends
    /\ \A name \in {SampleKey, OtherSampleKey} :
            RowsHeld(wandb_backends[TheBackend].object, samples)[name] <= MaxRows
    /\ LET wrote == log_samples(wandb_backends[TheBackend].object, samples, step)
       IN  /\ wandb_backends' = (TheBackend :> Outcome(wrote.object, "none"))
           /\ wandb_done' = WandbDone("log_samples", samples, wrote.writes, None)
    /\ UNCHANGED <<collector_vars, filter_vars, merge_vars, metadata_per_primary_backend>>

\* the controller keeps what its primary backend returns, under the backend's name
BackendGetMetadata ==
    /\ TheBackend \in DOMAIN wandb_backends
    /\ LET metadata == get_metadata_for_secondary_ranks(wandb_backends[TheBackend].object)
       IN  /\ metadata_per_primary_backend' = Dict("wandb" :> metadata)
           /\ wandb_done' =
                WandbDone("get_metadata_for_secondary_ranks", NoKeys, <<>>, metadata)
    /\ wandb_backends' =
            (TheBackend :> Outcome(wandb_backends[TheBackend].object, "none"))
    /\ UNCHANGED <<collector_vars, filter_vars, merge_vars>>

BackendFinish ==
    /\ TheBackend \in DOMAIN wandb_backends
    /\ LET wrote == finish(wandb_backends[TheBackend].object)
       IN  /\ wandb_backends' = (TheBackend :> Outcome(wrote.object, "none"))
           /\ wandb_done' = WandbDone("finish", NoKeys, wrote.writes, None)
    /\ UNCHANGED <<collector_vars, filter_vars, merge_vars, metadata_per_primary_backend>>

NextBackend ==
    \/ \E m \in LoggingMode, share \in BOOLEAN : BackendNew(WandbEntry(m, share))
    \/ \E m \in LoggingMode : BackendNew(ConfigEntry("wandb", m))
    \/ \E role \in {BackendRoleGlobal, BackendRoleLocal, InvalidRole},
          primary_logger_metadata \in PrimaryMetadataArgs, reachable \in BOOLEAN :
            BackendInit(role, primary_logger_metadata, reachable)
    \/ \E metrics \in BatchArgs, step \in StepArgs :
            BackendLogBatch(metrics, step)
    \/ \E step \in StepArgs :
            BackendLogStream(Metric(ScalarKey, Num(1), "mean"), step)
    \/ \E samples \in SamplesArgs, step \in StepArgs : BackendLogSamples(samples, step)
    \/ BackendGetMetadata
    \/ BackendFinish

SpecBackend == InitBackend /\ [][NextBackend]_vars

(***************************************************************************)
(* init_backends calls that overlap: a caller that does not await one call *)
(* before it makes the next, or two callers of the same collector. A call  *)
(* may then start while another is suspended at "await backend.init(...)". *)
(***************************************************************************)
\* the configs of the overlapping calls
OverlapConfigs ==
    {<<ConfigEntry("console", m)>> : m \in LoggingMode}
    \cup {<<ConfigEntry("console", m), ConfigEntry("wandb", m)>> : m \in LoggingMode}

NextOverlap ==
    \/ \E config \in OverlapConfigs, step \in StepArgs : StartInit(config, step)
    \/ \E i \in 1 .. MaxInit, outcome \in Outcomes : InitResume(i, outcome)
    \/ \E metric \in LifecyclePushArgs : Push(metric)

SpecOverlap == Init /\ [][NextOverlap]_vars

(***************************************************************************)
(* Reporting cycles of a collector that has been initialized: pushes and   *)
(* flushes, one after the other and interleaved, from the state in which   *)
(* init_backends(config, step) left a new collector. The calls counted are *)
(* those made from there on.                                               *)
(***************************************************************************)
\* configs that give the collector a backend of each per-rank mode
CycleConfigs ==
    {<<ConfigEntry("console", "per_rank_reduce"),
       ConfigEntry("wandb", "per_rank_no_reduce")>>,
     <<ConfigEntry("console", "per_rank_no_reduce"),
       ConfigEntry("wandb", "per_rank_reduce")>>}

\* the backend objects init_backends creates for a config without GLOBAL_REDUCE entries
BackendsOf(config) == [i \in 1 .. Len(config) |-> Backend(i, config[i])]

\* the list init_backends appends the backends of the mode to
BackendsOfMode(config, mode) ==
    LET HasMode(backend) == backend.logging_mode = mode
    IN  SelectSeq(BackendsOf(config), HasMode)

InitCycle ==
    /\ \E config \in CycleConfigs, step \in StepArgs :
            /\ per_rank_reduce_backends = BackendsOfMode(config, "per_rank_reduce")
            /\ per_rank_no_reduce_backends = BackendsOfMode(config, "per_rank_no_reduce")
            /\ next_backend = Len(config) + 1
            /\ global_step = step
            /\ init_step = step
            /\ done = Done("init_backends", 1, ConfigArg(config), "returned", "none",
                           IdleFlush)
    /\ is_initialized = TRUE
    /\ accumulators = NoKeys
    /\ init_calls = [i \in 1 .. MaxInit |-> IdleInit]
    /\ flush_calls = [f \in 1 .. MaxFlush |-> IdleFlush]
    /\ tasks = <<>>
    /\ calls = <<>>
    /\ n_push = 0
    /\ pending = NoKeys
    /\ unflushed_sum = NoKeys
    /\ unflushed_count = NoKeys
    /\ last_flushed = -1
    /\ shutdown_calls = [s \in 1 .. MaxShutdown |-> IdleShutdown]
    /\ finished = {}
    /\ instances = (ThisRank :> Instance(1, ThisRank))
    /\ FORGE_DISABLE_METRICS = Unset
    /\ NoStandalone

\* the metrics pushed: a number and a sample their accumulators accept, and
\* a record under a numeric reduction and a number under SAMPLE, which the
\* accumulator of their reduction rejects
CyclePushArgs ==
    LifecyclePushArgs
    \cup {Metric(ScalarKey, Sample(1), "mean"), Metric(SampleKey, Num(1), "sample")}

NextCycle ==
    \/ \E metric \in CyclePushArgs : Push(metric)
    \/ RunTask
    \/ \E step \in StepArgs, return_state \in BOOLEAN : Flush(step, return_state)
    \/ \E f \in 1 .. MaxFlush, outcome \in Outcomes : FlushResume(f, outcome)

SpecCycle == InitCycle /\ [][NextCycle]_vars

(***************************************************************************)
(* Vocabulary of the properties                                            *)
(***************************************************************************)
RECURSIVE AppendAll(_, _)
AppendAll(acc, values) ==
    IF values = <<>> THEN acc
    ELSE AppendAll(append(acc, Head(values)), Tail(values))

\* get_value() / get_state() of a new accumulator of the kind given the values
LocalValue(kind, values) == get_value(AppendAll(accumulator_class(kind), values))

RawState(kind, values) == get_state(AppendAll(accumulator_class(kind), values))

\* the step is a call of push / of flush
PushCalled == n_push' = n_push + 1

FlushCalled == Used(flush_calls') = Used(flush_calls) + 1

\* the frame of the flush that ran in the last step
LastFlushFrame == IF done.status = "suspended" THEN flush_calls[done.id] ELSE done.frame

FlushReturned == done.op = "flush" /\ done.status = "returned"

\* no value was appended since creation or since the last reset
NoDataHeld == \A key \in DOMAIN pending : pending[key] = <<>>

BackendIds(backends) == {backends[i].id : i \in 1 .. Len(backends)}

\* the step counter push must pass on
CurrentStep == IF last_flushed = -1 THEN init_step ELSE last_flushed + 1

(***************************************************************************)
(* C1: a push on a collector whose init_backends has not completed, with   *)
(* a Metric or with anything else, does not raise, calls no backend,       *)
(* schedules nothing, creates no accumulator (the map is and stays empty)  *)
(* and leaves the step counter unchanged.                                  *)
(***************************************************************************)
C1_PushBeforeInitIsDropped ==
    [][(PushCalled /\ ~is_initialized) =>
            /\ done'.status = "returned"
            /\ done'.exc = "none"
            /\ calls' = <<>>
            /\ tasks' = tasks
            /\ accumulators = NoKeys
            /\ accumulators' = NoKeys
            /\ global_step' = global_step]_vars

C1_Witness ==
    /\ done.op = "push"
    /\ ~is_initialized
    /\ ~IsMetric(done.arg)
    /\ n_push = 2
    /\ \E i \in DOMAIN init_calls : init_calls[i].pc = "await_init"

(***************************************************************************)
(* C2: on an initialized collector a flush called when no accumulator      *)
(* holds data (nothing appended since creation or since the last reset)    *)
(* returns an empty map at once, calls no backend and leaves the step      *)
(* counter unchanged.                                                      *)
(***************************************************************************)
C2_FlushWithoutDataIsNoop ==
    [][(FlushCalled /\ is_initialized /\ NoDataHeld) =>
            /\ done'.status = "returned"
            /\ done'.frame.result = NoKeys
            /\ calls' = <<>>
            /\ global_step' = global_step]_vars

(***************************************************************************)
(* C3: on an initialized collector on which push was never called, flush   *)
(* returns an empty map at once, calls no backend and leaves the step      *)
(* counter at the value init_backends set.                                 *)
(***************************************************************************)
C3_FlushBeforeAnyPushIsNoop ==
    [][(FlushCalled /\ is_initialized /\ n_push = 0) =>
            /\ done'.status = "returned"
            /\ done'.frame.result = NoKeys
            /\ ~done'.frame.effective
            /\ calls' = <<>>
            /\ accumulators' = NoKeys
            /\ global_step' = global_step
            /\ global_step' = init_step]_vars

C3_Witness ==
    /\ FlushReturned
    /\ is_initialized
    /\ n_push = 0
    /\ done.frame.return_state
    /\ done.frame.global_step = 0
    /\ per_rank_reduce_backends # <<>>
    /\ global_step = 1

(***************************************************************************)
(* C4: every log_batch a flush(g) issues carries step g and, for exactly   *)
(* the non-SAMPLE keys of the collector, the value a new accumulator of    *)
(* the key's kind yields for the values appended under the key since the   *)
(* previous snapshot.                                                      *)
(***************************************************************************)
ScalarKeysOf(states) == {key \in DOMAIN states : states[key].reduction_type # "sample"}

SampleKeysOf(states) == {key \in DOMAIN states : states[key].reduction_type = "sample"}

C4_LoggedValueIsLocalReduction ==
    \A i \in 1 .. Len(calls) :
        calls[i].op = "log_batch" =>
            LET frame == LastFlushFrame
                metrics == calls[i].arg
            IN  /\ done.op = "flush"
                /\ calls[i].step = frame.global_step
                /\ DOMAIN metrics = ScalarKeysOf(frame.states)
                /\ \A key \in DOMAIN metrics :
                        /\ metrics[key].key = key
                        /\ metrics[key].reduction = accumulators[key].reduction_type
                        /\ metrics[key].value =
                                LocalValue(accumulators[key].reduction_type,
                                           frame.vals[key])

C4_Witness ==
    /\ done.op = "flush"
    /\ calls # <<>>
    /\ calls[1].op = "log_batch"
    /\ calls[1].step = 1
    /\ ScalarKey \in DOMAIN calls[1].arg
    /\ calls[1].arg[ScalarKey].reduction = "mean"
    /\ calls[1].arg[ScalarKey].value = Float(2)
    /\ LastFlushFrame.vals[ScalarKey] = <<Num(1), Num(3)>>

(***************************************************************************)
(* C5: a flush that found data returns, when return_state is set, the raw  *)
(* state of every key as snapshotted (the get_state() of a new accumulator *)
(* fed the values appended since the previous snapshot), and an empty map  *)
(* otherwise; the snapshot taken and the backend calls issued are the      *)
(* same in both cases.                                                     *)
(***************************************************************************)
ExpectedStates(frame) ==
    [key \in DOMAIN frame.vals |->
        RawState(accumulators[key].reduction_type, frame.vals[key])]

\* the backend calls of one flush, in order, from its snapshot and the backend list
RECURSIVE ExpectedCalls(_, _)
ExpectedCalls(frame, backends) ==
    IF backends = <<>> THEN <<>>
    ELSE (IF ScalarKeysOf(frame.states) # {}
          THEN <<[op |-> "log_batch", backend |-> Head(backends).id]>> ELSE <<>>)
         \o (IF SampleKeysOf(frame.states) # {}
             THEN <<[op |-> "log_samples", backend |-> Head(backends).id]>> ELSE <<>>)
         \o ExpectedCalls(frame, Tail(backends))

CallTarget(call) == [op |-> call.op, backend |-> call.backend]

C5_FlushReturnsRawStates ==
    (FlushReturned /\ done.frame.effective) =>
        /\ done.frame.states = ExpectedStates(done.frame)
        /\ Map(done.frame.issued, CallTarget) =
                ExpectedCalls(done.frame, per_rank_reduce_backends)
        /\ done.frame.result =
                IF done.frame.return_state THEN ExpectedStates(done.frame) ELSE NoKeys

C5_Witness ==
    /\ FlushReturned
    /\ done.frame.effective
    /\ done.frame.return_state
    /\ done.frame.issued # <<>>
    /\ done.frame.result =
            (ScalarKey :> [reduction_type |-> "mean", sum |-> 4, count |-> 2])

(***************************************************************************)
(* C6: when a flush(g) that found data returns, the step counter is g + 1  *)
(* whatever return_state and the backends are; only init_backends and      *)
(* flush change the step counter.                                          *)
(***************************************************************************)
C6_StepAdvancesToGPlusOne ==
    [][/\ (FlushReturned' /\ done'.frame.effective) =>
                global_step' = done'.frame.global_step + 1
       /\ global_step' # global_step => done'.op \in {"init_backends", "flush"}]_vars

C6_Witness ==
    /\ FlushReturned
    /\ done.frame.effective
    /\ done.frame.global_step = 1
    /\ done.frame.completed > 0
    /\ global_step = 2

(***************************************************************************)
(* C7: the step in which a flush takes its snapshot leaves every           *)
(* accumulator equal to a new accumulator of its kind, and the snapshot    *)
(* holds only what was appended since the previous such step.              *)
(***************************************************************************)
C7_FlushResetsEveryAccumulator ==
    [][(FlushCalled /\ is_initialized /\ accumulators # NoKeys) =>
            /\ DOMAIN accumulators' = DOMAIN accumulators
            /\ \A key \in DOMAIN accumulators :
                    /\ accumulators'[key] =
                            accumulator_class(accumulators[key].reduction_type)
                    /\ LastFlushFrame'.states[key] =
                            RawState(accumulators[key].reduction_type, pending[key])]_vars

C7_Witness ==
    /\ done.op = "flush"
    /\ Used(flush_calls) = 2
    /\ LastFlushFrame.effective
    /\ LastFlushFrame.completed = 0
    /\ Len(LastFlushFrame.issued) <= 1
    /\ SampleKey \in DOMAIN accumulators
    /\ LastFlushFrame.vals[SampleKey] # <<>>
    /\ accumulators[SampleKey] = SampleAccumulator

(***************************************************************************)
(* C8: for a SUM key the numbers appended so far are, at every moment,     *)
(* exactly the totals the snapshots took plus the accumulator's current    *)
(* total, and likewise for the sum and the count of a MEAN key, whatever   *)
(* the interleaving of pushes with flush calls and suspended flushes.      *)
(***************************************************************************)
C8_EveryPushCountedOnce ==
    \A key \in DOMAIN accumulators :
        /\ accumulators[key].reduction_type = "sum" =>
                unflushed_sum[key] = accumulators[key].total
        /\ accumulators[key].reduction_type = "mean" =>
                /\ unflushed_sum[key] = accumulators[key].sum
                /\ unflushed_count[key] = accumulators[key].count

C8_Witness ==
    /\ done.op = "push"
    /\ done.status = "returned"
    /\ \E f \in DOMAIN flush_calls :
            /\ flush_calls[f].pc = "await_batch"
            /\ ScalarKey \in DOMAIN flush_calls[f].states
            /\ flush_calls[f].states[ScalarKey] = [reduction_type |-> "sum", total |-> 1]
    /\ accumulators[ScalarKey] = [reduction_type |-> "sum", total |-> 3]

(***************************************************************************)
(* C9: the backend calls of one flush go to the accumulate-then-flush      *)
(* backends in list order, log_batch before log_samples for each backend,  *)
(* log_batch only with a non-empty scalar list and log_samples only with   *)
(* a non-empty table map, each call issued only once the previous one has  *)
(* completed; no stream-immediately backend is called.                     *)
(***************************************************************************)
Prefix(seq, n) == SubSeq(seq, 1, n)

FlushCallsInOrder(frame) ==
    LET expected == ExpectedCalls(frame, per_rank_reduce_backends)
        issued == Map(frame.issued, CallTarget)
    IN  /\ Len(issued) <= Len(expected)
        /\ issued = Prefix(expected, Len(issued))
        /\ frame.pc \in {"await_batch", "await_samples", "raised"} =>
                Len(issued) = frame.completed + 1
        /\ frame.pc = "returned" =>
                /\ Len(issued) = frame.completed
                /\ issued = expected
        /\ \A i \in 1 .. Len(frame.issued) :
                /\ frame.issued[i].backend \notin BackendIds(per_rank_no_reduce_backends)
                /\ frame.issued[i].op = "log_batch" =>
                        /\ frame.issued[i].arg = frame.scalar_metrics
                        /\ DOMAIN frame.scalar_metrics # {}
                /\ frame.issued[i].op = "log_samples" =>
                        /\ frame.issued[i].arg = frame.sample_metrics
                        /\ DOMAIN frame.sample_metrics # {}

C9_FlushCallsBackendsInOrder ==
    /\ \A f \in DOMAIN flush_calls :
            flush_calls[f].pc \in {"await_batch", "await_samples"} =>
                FlushCallsInOrder(flush_calls[f])
    /\ (done.op = "flush" /\ done.status # "suspended") => FlushCallsInOrder(done.frame)
    /\ done.op = "flush" => calls = (IF done.status = "suspended"
                                     THEN <<LastFlushFrame.issued[Len(LastFlushFrame.issued)]>>
                                     ELSE <<>>)

C9_Witness ==
    /\ FlushReturned
    /\ Len(per_rank_reduce_backends) = 2
    /\ Map(done.frame.issued, CallTarget) =
            <<[op |-> "log_batch", backend |-> per_rank_reduce_backends[1].id],
              [op |-> "log_samples", backend |-> per_rank_reduce_backends[1].id],
              [op |-> "log_batch", backend |-> per_rank_reduce_backends[2].id],
              [op |-> "log_samples", backend |-> per_rank_reduce_backends[2].id]>>

(***************************************************************************)
(* C10: on an initialized collector the push of a non-SAMPLE Metric calls  *)
(* log_stream once on each stream-immediately backend, in list order, and  *)
(* on no other backend, with the metric and the current step: the step     *)
(* given to init_backends until a flush has advanced it, then g + 1 of the *)
(* last flush(g) that did.                                                 *)
(***************************************************************************)
C10_PushStreamsAtCurrentStep ==
    (/\ done.op = "push"
     /\ is_initialized
     /\ IsMetric(done.arg)
     /\ done.arg.reduction # "sample") =>
        /\ Len(calls) = Len(per_rank_no_reduce_backends)
        /\ \A i \in 1 .. Len(calls) :
                calls[i] = Call(per_rank_no_reduce_backends[i].id, "log_stream",
                                done.arg, CurrentStep)
        /\ \A i \in 1 .. Len(calls) :
                calls[i].backend \notin BackendIds(per_rank_reduce_backends)

C10_Witness ==
    /\ done.op = "push"
    /\ is_initialized
    /\ IsMetric(done.arg)
    /\ done.arg.reduction # "sample"
    /\ per_rank_reduce_backends # <<>>
    /\ Len(calls) = 1
    /\ last_flushed = 1
    /\ init_step = 0
    /\ calls[1].step = 2

(***************************************************************************)
(* C11: on an initialized collector the push of a SAMPLE Metric adds, for  *)
(* every stream-immediately backend in list order, one background          *)
(* log_samples task carrying the one-row table {key: [value]} and the      *)
(* current step, and the push itself starts no backend call: the tasks are *)
(* still waiting when push is over.                                        *)
(***************************************************************************)
C11_SamplePushSchedulesTasks ==
    [][(/\ PushCalled
        /\ is_initialized
        /\ IsMetric(done'.arg)
        /\ done'.arg.reduction = "sample") =>
            /\ calls' = <<>>
            /\ Len(tasks') = Len(tasks) + Len(per_rank_no_reduce_backends)
            /\ Prefix(tasks', Len(tasks)) = tasks
            /\ \A i \in 1 .. Len(per_rank_no_reduce_backends) :
                    tasks'[Len(tasks) + i] =
                        Task(per_rank_no_reduce_backends[i].id,
                             (done'.arg.key :> <<done'.arg.value>>), CurrentStep)]_vars

C11_Witness ==
    /\ done.op = "push"
    /\ done.status = "returned"
    /\ is_initialized
    /\ done.arg.reduction = "sample"
    /\ Len(per_rank_no_reduce_backends) = 2
    /\ Len(tasks) = 2
    /\ tasks[2].samples = (SampleKey :> <<Sample(1)>>)
    /\ calls = <<>>

(***************************************************************************)
(* C12: on an initialized collector a push that returns has appended its   *)
(* value to the accumulator of its key, which then equals a new            *)
(* accumulator of the key's kind fed every value pushed under the key      *)
(* since the last reset, whether or not a stream-immediately backend was   *)
(* handed the value; the next flush snapshots and reduces it.              *)
(***************************************************************************)
C12_StreamedValueIsAccumulated ==
    [][(PushCalled /\ is_initialized /\ done'.status = "returned") =>
            LET key == done'.arg.key
                before == IF key \in DOMAIN pending THEN pending[key] ELSE <<>>
            IN  /\ key \in DOMAIN accumulators'
                /\ accumulators'[key] =
                        AppendAll(accumulator_class(accumulators'[key].reduction_type),
                                  Append(before, done'.arg.value))]_vars

C12_Witness ==
    /\ done.op = "flush"
    /\ per_rank_no_reduce_backends # <<>>
    /\ calls # <<>>
    /\ calls[1].op = "log_batch"
    /\ ScalarKey \in DOMAIN calls[1].arg
    /\ calls[1].arg[ScalarKey].reduction = "mean"
    /\ calls[1].arg[ScalarKey].value = Float(3)
    /\ LastFlushFrame.vals[ScalarKey] = <<Num(3)>>

(***************************************************************************)
(* C13: on an initialized collector the push of an object that is not a    *)
(* Metric (here one that has a Metric's attributes) raises TypeError and   *)
(* has no effect: no backend call, no background task, the accumulators    *)
(* and the step counter unchanged.                                         *)
(***************************************************************************)
C13_NonMetricPushRaisesTypeError ==
    [][(PushCalled /\ is_initialized /\ done'.arg = NotAMetric) =>
            /\ done'.status = "raised"
            /\ done'.exc = "TypeError"
            /\ calls' = <<>>
            /\ tasks' = tasks
            /\ accumulators' = accumulators
            /\ global_step' = global_step]_vars

C13_Witness ==
    /\ done.op = "push"
    /\ done.arg = NotAMetric
    /\ done.exc = "TypeError"
    /\ is_initialized
    /\ per_rank_no_reduce_backends # <<>>
    /\ ScalarKey \in DOMAIN accumulators

(***************************************************************************)
(* C14: an init_backends call that returns leaves the collector            *)
(* initialized, the collector stays initialized, and every init_backends   *)
(* call made on an initialized collector, with any config and global_step, *)
(* returns at once: it instantiates and initializes no backend and leaves  *)
(* both backend lists, the step counter and the accumulators unchanged.    *)
(***************************************************************************)
InitCalled == Used(init_calls') = Used(init_calls) + 1

InitReturned == done.op = "init_backends" /\ done.status = "returned"

C14_InitAfterInitIsNoop ==
    [][/\ InitReturned' => is_initialized'
       /\ is_initialized => is_initialized'
       /\ (InitCalled /\ is_initialized) =>
            /\ InitReturned'
            /\ calls' = <<>>
            /\ next_backend' = next_backend
            /\ per_rank_reduce_backends' = per_rank_reduce_backends
            /\ per_rank_no_reduce_backends' = per_rank_no_reduce_backends
            /\ global_step' = global_step
            /\ accumulators' = accumulators]_vars

C14_Witness ==
    /\ InitReturned
    /\ done.id = 2
    /\ is_initialized
    /\ Len(per_rank_reduce_backends) = 2
    /\ accumulators # NoKeys
    /\ global_step = 1
    /\ next_backend = 3

(***************************************************************************)
(* C15: when an init_backends call that ran its loop over config returns   *)
(* (no other init_backends call overlapping it), the collector is          *)
(* initialized, the stream-immediately list holds exactly the              *)
(* PER_RANK_NO_REDUCE entries of config and the accumulate-then-flush list *)
(* exactly the PER_RANK_REDUCE entries, each once and in config order, as  *)
(* distinct backend objects; every backend is instantiated for an entry    *)
(* that is not GLOBAL_REDUCE and is initialized with role LOCAL.           *)
(***************************************************************************)
EntryOf(backend) == ConfigEntry(backend.name, backend.logging_mode)

IsPerRankReduce(entry) == entry.logging_mode = "per_rank_reduce"

IsPerRankNoReduce(entry) == entry.logging_mode = "per_rank_no_reduce"

BucketedAsConfigured(config) ==
    /\ is_initialized
    /\ Map(per_rank_reduce_backends, EntryOf) = SelectSeq(config, IsPerRankReduce)
    /\ Map(per_rank_no_reduce_backends, EntryOf) = SelectSeq(config, IsPerRankNoReduce)
    /\ Cardinality(BackendIds(per_rank_reduce_backends)
                    \cup BackendIds(per_rank_no_reduce_backends))
            = Len(per_rank_reduce_backends) + Len(per_rank_no_reduce_backends)

\* the init_backends call that just returned ran its loop over config
InitRanLoop == InitReturned /\ done.arg.class = "dict"

C15_LocalBackendsBucketedByMode ==
    [][/\ (InitRanLoop => BucketedAsConfigured(done.arg.items))'
       /\ next_backend' # next_backend =>
            /\ done'.op = "init_backends"
            /\ next_backend' = next_backend + 1
            /\ calls' = <<Call(next_backend, "init", BackendRoleLocal, 0)>>
            /\ init_calls'[done'.id].backend.id = next_backend
            /\ init_calls'[done'.id].backend.logging_mode
                    \in {"per_rank_reduce", "per_rank_no_reduce"}]_vars

C15_Witness ==
    /\ InitRanLoop
    /\ done.arg.items = <<ConfigEntry("console", "global_reduce"),
                           ConfigEntry("wandb", "per_rank_no_reduce")>>
    /\ per_rank_reduce_backends = <<>>
    /\ Len(per_rank_no_reduce_backends) = 1
    /\ per_rank_no_reduce_backends[1].name = "wandb"

(***************************************************************************)
(* C16: a shutdown on an uninitialized collector returns at once and calls *)
(* no backend; a shutdown on an initialized collector calls finish on the  *)
(* accumulate-then-flush backends in list order and then on the            *)
(* stream-immediately backends in list order, once each, every finish      *)
(* issued only when the previous one has returned.                         *)
(***************************************************************************)
ShutdownCalled == Used(shutdown_calls') = Used(shutdown_calls) + 1

FinishCall(backend) == [op |-> "finish", backend |-> backend.id]

ShutdownCallsInOrder(frame) ==
    LET expected == Map(per_rank_reduce_backends, FinishCall)
                        \o Map(per_rank_no_reduce_backends, FinishCall)
        issued == Map(frame.issued, CallTarget)
    IN  /\ Len(issued) <= Len(expected)
        /\ issued = Prefix(expected, Len(issued))
        /\ frame.pc \in {"await_finish", "raised"} => Len(issued) = frame.completed + 1
        /\ frame.pc = "returned" =>
                /\ issued = expected
                /\ frame.completed = Len(expected)

C16_ShutdownFinishesBackendsInOrder ==
    /\ \A s \in DOMAIN shutdown_calls :
            shutdown_calls[s].pc = "await_finish" =>
                ShutdownCallsInOrder(shutdown_calls[s])
    /\ done.op = "shutdown" =>
            /\ (is_initialized /\ done.status # "suspended") =>
                    ShutdownCallsInOrder(done.frame)
            /\ calls = (IF done.status = "suspended"
                         THEN LET frame == shutdown_calls[done.id]
                              IN  <<frame.issued[Len(frame.issued)]>>
                         ELSE <<>>)
            /\ ~is_initialized =>
                    /\ done.status = "returned"
                    /\ done.frame.issued = <<>>
                    /\ finished = {}

C16_Witness ==
    /\ done.op = "shutdown"
    /\ done.status = "returned"
    /\ Len(per_rank_reduce_backends) = 1
    /\ Len(per_rank_no_reduce_backends) = 1
    /\ per_rank_no_reduce_backends[1].id < per_rank_reduce_backends[1].id
    /\ Map(done.frame.issued, CallTarget) =
            <<FinishCall(per_rank_reduce_backends[1]),
              FinishCall(per_rank_no_reduce_backends[1])>>

(***************************************************************************)
(* C17: once shutdown has called finish on a backend, no push, flush or    *)
(* shutdown called afterwards issues a log_stream, log_batch, log_samples  *)
(* or finish call to that backend.                                         *)
(***************************************************************************)
C17_NoCallAfterFinish ==
    [][(PushCalled \/ FlushCalled \/ ShutdownCalled) =>
            \A i \in 1 .. Len(calls') : calls'[i].backend \notin finished]_vars

(***************************************************************************)
(* C18: the registry holds one collector object per rank, distinct         *)
(* objects for distinct ranks, and never replaces or drops one; every      *)
(* MetricCollector() returns the object registered for the current rank,   *)
(* and constructing the collector of this rank again leaves its            *)
(* accumulators, backend lists, step counter and initialized flag as they  *)
(* are.                                                                    *)
(***************************************************************************)
RegistryIsInjective ==
    \A r1 \in DOMAIN instances :
        /\ instances[r1].singleton_rank = r1
        /\ \A r2 \in DOMAIN instances : r1 # r2 => instances[r1].id # instances[r2].id

Constructing == done'.op = "MetricCollector"

C18_OneCollectorPerRank ==
    [][/\ RegistryIsInjective'
       /\ \A r \in DOMAIN instances :
                r \in DOMAIN instances' /\ instances'[r] = instances[r]
       /\ Constructing =>
            /\ done'.status = "returned"
            /\ done'.arg.rank \in DOMAIN instances'
            /\ done'.id = instances'[done'.arg.rank].id
            /\ Constructed =>
                    /\ accumulators' = accumulators
                    /\ per_rank_reduce_backends' = per_rank_reduce_backends
                    /\ per_rank_no_reduce_backends' = per_rank_no_reduce_backends
                    /\ global_step' = global_step
                    /\ is_initialized' = is_initialized]_vars

C18_Witness ==
    /\ done.op = "MetricCollector"
    /\ done.arg.rank = ThisRank
    /\ DOMAIN instances = Ranks
    /\ done.id = instances[ThisRank].id
    /\ is_initialized
    /\ per_rank_reduce_backends # <<>>
    /\ ScalarKey \in DOMAIN accumulators
    /\ global_step = 2

(***************************************************************************)
(* C19: when a collector exists for some rank and MetricCollector() is     *)
(* called while the current rank is one no collector is registered for,    *)
(* the call raises ValueError and registers nothing.                       *)
(***************************************************************************)
C19_SecondRankIsFatal ==
    [][(/\ Constructing
        /\ DOMAIN instances # {}
        /\ done'.arg.rank \notin DOMAIN instances) =>
            /\ done'.status = "raised"
            /\ done'.exc = "ValueError"
            /\ instances' = instances]_vars

(***************************************************************************)
(* C20: while FORGE_DISABLE_METRICS is set to "true" in any letter case, a *)
(* record_metric or record_episode_sample call returns having registered   *)
(* no collector, created or changed no accumulator, called no backend,     *)
(* scheduled no task and left the step counter, the backend lists and the  *)
(* initialized flag unchanged, whether or not the collector of the rank    *)
(* exists or is initialized.                                               *)
(***************************************************************************)
SwitchIsTrue ==
    /\ FORGE_DISABLE_METRICS.set
    /\ Len(FORGE_DISABLE_METRICS.value) = 4
    /\ FORGE_DISABLE_METRICS.value[1] \in {"t", "T"}
    /\ FORGE_DISABLE_METRICS.value[2] \in {"r", "R"}
    /\ FORGE_DISABLE_METRICS.value[3] \in {"u", "U"}
    /\ FORGE_DISABLE_METRICS.value[4] \in {"e", "E"}

\* the step is a record_metric call (which may have gone on to push)
Recording == done'.op \in {"record_metric", "push"}

C20_DisabledRecordMetricIsNoop ==
    [][(SwitchIsTrue /\ Recording) =>
            /\ done'.op = "record_metric"
            /\ done'.status = "returned"
            /\ instances' = instances
            /\ accumulators' = accumulators
            /\ calls' = <<>>
            /\ tasks' = tasks
            /\ n_push' = n_push
            /\ global_step' = global_step
            /\ per_rank_reduce_backends' = per_rank_reduce_backends
            /\ per_rank_no_reduce_backends' = per_rank_no_reduce_backends
            /\ is_initialized' = is_initialized]_vars

C20_Witness ==
    /\ done.op = "record_metric"
    /\ done.arg.reduction = "sample"
    /\ FORGE_DISABLE_METRICS = SetTo(<<"t", "R", "u", "E">>)
    /\ DOMAIN instances = {ThisRank}
    /\ is_initialized
    /\ per_rank_no_reduce_backends # <<>>
    /\ accumulators = NoKeys

(***************************************************************************)
(* TopBottomKFilter                                                        *)
(***************************************************************************)
\* how many entries a side configured with k may hold
Capacity(k) == IF k > 0 THEN k ELSE 0

TopSamples == {filter.top_heap[i].sample : i \in DOMAIN filter.top_heap}

BottomSamples == {filter.bottom_heap[i].sample : i \in DOMAIN filter.bottom_heap}

SeenSamples == {seen[i] : i \in DOMAIN seen}

\* C21: whatever filter_append, filter_flush and reset calls have been made, the top
\* heap holds at most top_k entries and the bottom heap at most bottom_k entries, and
\* a side whose k is zero or negative holds no entry
C21_HeapsStayWithinK ==
    /\ Len(filter.top_heap) <= Capacity(filter.top_k)
    /\ Len(filter.bottom_heap) <= Capacity(filter.bottom_k)

\* more samples than top_k were appended: the top heap is full and not over, while
\* the bottom side, configured with a negative k, is empty
C21_Witness ==
    /\ filter.top_k = 2
    /\ filter.bottom_k < 0
    /\ Len(seen) > 2
    /\ Len(filter.top_heap) = 2
    /\ filter.bottom_heap = <<>>

\* the key values of the appended samples are pairwise distinct
DistinctValues ==
    \A i, j \in DOMAIN seen :
        SampleKeyValue(seen[i]) = SampleKeyValue(seen[j]) => i = j

\* the samples of a set that have fewer than k samples of the set above them
Highest(samples, k) ==
    {s \in samples :
        Cardinality({t \in samples : SampleKeyValue(t) > SampleKeyValue(s)}) < k}

Lowest(samples, k) ==
    {s \in samples :
        Cardinality({t \in samples : SampleKeyValue(t) < SampleKeyValue(s)}) < k}

\* C22: when the samples appended since the last reset have pairwise distinct key
\* values, the top heap holds exactly the min(n, top_k) samples of highest value and
\* the bottom heap exactly the min(n, bottom_k) samples of lowest value, each once,
\* in whatever order the samples arrived
C22_HeapsHoldTheExtremes ==
    DistinctValues =>
        /\ TopSamples = Highest(SeenSamples, Capacity(filter.top_k))
        /\ Len(filter.top_heap) = MinI(Len(seen), Capacity(filter.top_k))
        /\ BottomSamples = Lowest(SeenSamples, Capacity(filter.bottom_k))
        /\ Len(filter.bottom_heap) = MinI(Len(seen), Capacity(filter.bottom_k))

\* top_k = 2, bottom_k = 1 and the values 5, 1, 9, 3, 7 in this order: the bottom
\* is {1} and the top {9, 7}
C22_Witness ==
    /\ filter.top_k = 2
    /\ filter.bottom_k = 1
    /\ seen = <<Sample(5), Sample(1), Sample(9), Sample(3), Sample(7)>>
    /\ BottomSamples = {Sample(1)}
    /\ TopSamples = {Sample(9), Sample(7)}

(***************************************************************************)
(* Merging accumulator states                                              *)
(***************************************************************************)
MergeReturned == merged.returned /\ merged.op = "get_reduced_value_from_states"

\* the accumulator whose state is the i-th of the merged list
MergedAccumulator(i) == local[merged.order[i]][merged.key]

MergedKind == MergedAccumulator(1).reduction_type

\* C23: for each of the six kinds and whatever was appended since the accumulator
\* was constructed or reset (nothing included), the static merge of the list that
\* holds only the accumulator's get_state() is equal to its get_value()
C23_MergeOfOneStateIsLocalValue ==
    (MergeReturned /\ Len(merged.order) = 1) =>
        merged.value = get_value(MergedAccumulator(1))

\* a sample accumulator that holds samples has had its single state merged
C23_Witness ==
    /\ MergeReturned
    /\ Len(merged.order) = 1
    /\ MergedKind = "sample"
    /\ merged.value # <<>>
    /\ merged.value = get_value(MergedAccumulator(1))

\* the values of the merged key appended by the processes of the merged list
RECURSIVE MergedParts(_)
MergedParts(i) ==
    IF i = 0 THEN <<>>
    ELSE MergedParts(i - 1)
         \o SelectSeq(parts[merged.order[i]], LAMBDA metric : metric.key = merged.key)

MetricValue(metric) == metric.value

MergedList(i) == get_value(MergedAccumulator(i))

\* where the list of the i-th accumulator starts in the merged list
RECURSIVE MergedOffset(_)
MergedOffset(i) == IF i = 1 THEN 0 ELSE MergedOffset(i - 1) + Len(MergedList(i - 1))

\* C27: the merge of SAMPLE states is the lists of the processes one after the
\* other in input order, nothing filtered out: its length is the sum of the
\* lengths of the lists, which for p processes goes up to p * (top_k + bottom_k)
C27_SampleMergeConcatenates ==
    (MergeReturned /\ MergedKind = "sample") =>
        /\ Len(merged.value) =
                MergedOffset(Len(merged.order)) + Len(MergedList(Len(merged.order)))
        /\ \A i \in DOMAIN merged.order : \A j \in DOMAIN MergedList(i) :
                merged.value[MergedOffset(i) + j] = MergedList(i)[j]

\* every process holds top_k + bottom_k samples and the merged list holds all of
\* them, more than one filter would keep
C27_Witness ==
    /\ MergeReturned
    /\ MergedKind = "sample"
    /\ Len(merged.order) = MaxProcs
    /\ Len(merged.value) = MaxProcs * (DefaultTopK + DefaultBottomK)
    /\ Len(merged.value) > DefaultTopK + DefaultBottomK

(***************************************************************************)
(* reduce_metrics_states                                                   *)
(***************************************************************************)
ReduceReturned == merged.returned /\ merged.op = "reduce_metrics_states"

\* the accumulators of the process whose map is the i-th of the input list
InputAccumulators(i) == local[merged.order[i]]

InputKeys == UNION {DOMAIN InputAccumulators(i) : i \in DOMAIN merged.order}

\* two maps of the input list hold states of different kinds under the key
KindsDiffer(key) ==
    \E i, j \in DOMAIN merged.order :
        /\ key \in DOMAIN InputAccumulators(i)
        /\ key \in DOMAIN InputAccumulators(j)
        /\ InputAccumulators(i)[key].reduction_type
                # InputAccumulators(j)[key].reduction_type

\* C25: when two maps of the input list hold states of different reduction_type
\* under one key, wherever the two maps are in the list, reduce_metrics_states
\* raises ValueError and returns no Metric
C25_MismatchedKindsRaise ==
    (ReduceReturned /\ \E key \in InputKeys : KindsDiffer(key)) =>
        /\ merged.raised = "ValueError"
        /\ merged.metrics = <<>>

\* the two maps disagree on one key and agree on another, and the call raised
C25_Witness ==
    /\ ReduceReturned
    /\ KindsDiffer(ScalarKey)
    /\ SampleKey \in InputKeys
    /\ InputAccumulators(1)[ScalarKey].reduction_type = "sum"
    /\ merged.raised = "ValueError"

\* the states under the key of the maps that hold it, in input order
RECURSIVE InputStates(_, _)
InputStates(key, i) ==
    IF i = 0 THEN <<>>
    ELSE InputStates(key, i - 1)
         \o (IF key \in DOMAIN InputAccumulators(i)
             THEN <<get_state(InputAccumulators(i)[key])>>
             ELSE <<>>)

\* C26: when no key has states of different kinds, reduce_metrics_states returns
\* one Metric for each key of any input map and nothing else (nothing for the
\* empty list); the Metric's reduction is the kind of the key's states and its
\* value the static merge of that kind over the states of the maps that hold
\* the key, the other maps adding nothing
C26_OneMetricPerKey ==
    (ReduceReturned /\ \A key \in InputKeys : ~KindsDiffer(key)) =>
        /\ merged.raised = "none"
        /\ DOMAIN merged.metrics = InputKeys
        /\ \A key \in InputKeys :
                LET metric_states == InputStates(key, Len(merged.order))
                    kind == metric_states[1].reduction_type
                IN  /\ IsMetric(merged.metrics[key])
                    /\ merged.metrics[key].key = key
                    /\ merged.metrics[key].reduction = kind
                    /\ merged.metrics[key].value =
                            get_reduced_value_from_states(kind, metric_states)

\* two maps, the second of them without the key of the first: the key's Metric is
\* the mean of the first map alone, and the second map's key has its own Metric
C26_Witness ==
    /\ ReduceReturned
    /\ Len(merged.order) = 2
    /\ merged.raised = "none"
    /\ DOMAIN InputAccumulators(1) = {ScalarKey}
    /\ DOMAIN InputAccumulators(2) = {SampleKey}
    /\ InputAccumulators(1)[ScalarKey].reduction_type = "mean"
    /\ InputAccumulators(1)[ScalarKey].count = 2
    /\ merged.metrics[ScalarKey].value = Float(1)
    /\ DOMAIN merged.metrics = {ScalarKey, SampleKey}

(***************************************************************************)
(* flush before init_backends has completed                                *)
(***************************************************************************)
\* an init_backends call is suspended at a backend's init
InitSuspended == \E i \in DOMAIN init_calls : init_calls[i].pc = "await_init"

\* C28: a flush called while the collector is not initialized (init_backends never
\* called, suspended at a backend's init, or ended by an exception) returns without
\* raising, returns the empty map whatever global_step and return_state are,
\* starts no backend call and no task, and leaves the accumulators and
\* global_step as they were
C28_FlushBeforeInitIsNoop ==
    [][(FlushCalled /\ ~is_initialized) =>
            /\ done'.op = "flush"
            /\ done'.status = "returned"
            /\ done'.exc = "none"
            /\ done'.frame.result = NoKeys
            /\ calls' = <<>>
            /\ tasks' = tasks
            /\ accumulators' = accumulators
            /\ global_step' = global_step]_vars

\* flush(1, return_state=True) returned while init_backends was suspended, after
\* a push, and the step counter is still the one init_backends set
C28_Witness ==
    /\ FlushReturned
    /\ ~is_initialized
    /\ InitSuspended
    /\ n_push > 0
    /\ done.frame.return_state
    /\ done.frame.global_step = 1
    /\ done.frame.result = NoKeys
    /\ global_step = init_step
    /\ calls = <<>>

(***************************************************************************)
(* WandbBackend.init with role LOCAL on a shared run                       *)
(***************************************************************************)
\* the primary metadata holds no shared_run_id for wandb
NoSharedRunId ==
    \/ metadata_per_primary_backend = None
    \/ "wandb" \notin DOMAIN metadata_per_primary_backend.items
    \/ "shared_run_id" \notin DOMAIN metadata_per_primary_backend.items["wandb"]

\* init_backends call i awaits the init of a WandbBackend that shares its run
AwaitsSharedLocalInit(i) ==
    /\ init_calls[i].pc = "await_init"
    /\ init_calls[i].backend.name = "wandb"
    /\ init_calls[i].backend.logging_mode \in {"per_rank_reduce", "per_rank_no_reduce"}
    /\ "per_rank_share_run" \in DOMAIN init_calls[i].config[init_calls[i].pos]
    /\ init_calls[i].config[init_calls[i].pos].per_rank_share_run

AwaitedId(i) == init_calls[i].backend.id

\* C29: WandbBackend.init with role LOCAL, a per-rank logging mode and
\* per_rank_share_run set, given primary metadata without shared_run_id, raises
\* ValueError and leaves self.run None; the init_backends call that awaits it
\* raises too, does not set _is_initialized and does not keep the backend
C29_SharedLocalInitNeedsRunId ==
    [][\A i \in DOMAIN init_calls :
        (AwaitsSharedLocalInit(i) /\ NoSharedRunId) =>
            /\ AwaitedId(i) \in DOMAIN wandb_backends' =>
                    /\ wandb_backends'[AwaitedId(i)].raised = "ValueError"
                    /\ wandb_backends'[AwaitedId(i)].object.run = None
            /\ init_calls'[i] # init_calls[i] =>
                    /\ done'.op = "init_backends"
                    /\ done'.status = "raised"
                    /\ ~is_initialized'
                    /\ AwaitedId(i) \notin BackendIds(per_rank_reduce_backends')
                    /\ AwaitedId(i) \notin BackendIds(per_rank_no_reduce_backends')]_vars

\* init_backends raised after the console backend was initialized and kept: the
\* WandbBackend raised ValueError and has no run, the collector is not initialized
C29_Witness ==
    /\ done.op = "init_backends"
    /\ done.status = "raised"
    /\ ~is_initialized
    /\ per_rank_reduce_backends # <<>>
    /\ NoSharedRunId
    /\ \E id \in DOMAIN wandb_backends :
            /\ wandb_backends[id].raised = "ValueError"
            /\ wandb_backends[id].object.run = None
            /\ wandb_backends[id].object.per_rank_share_run

(***************************************************************************)
(* Overlapping init_backends calls                                         *)
(***************************************************************************)
LocalBackends == per_rank_reduce_backends \o per_rank_no_reduce_backends

ShutdownStepped == shutdown_calls' # shutdown_calls

\* the tasks that would write to a backend finish was called on
TasksOfFinished == {i \in 1 .. Len(tasks) : tasks[i].backend \in finished}

C31_ShutdownDoesNotJoinTasks ==
    [][ShutdownStepped =>
            /\ tasks' = tasks
            /\ \A i \in 1 .. Len(calls') : calls'[i].op = "finish"]_vars

C31_Witness ==
    /\ done.op = "shutdown"
    /\ done.status = "returned"
    /\ TasksOfFinished # {}
    /\ \A i \in TasksOfFinished :
            tasks[i].backend \in BackendIds(per_rank_no_reduce_backends)
    /\ done.frame.completed = Len(per_rank_no_reduce_backends)

(***************************************************************************)
(* C32: when a backend call awaited by flush(g) fails, flush raises the    *)
(* error to its caller and is over: it issues no further call (no retry,   *)
(* nothing to the backends that remain) and returns no states; the         *)
(* accumulators stay as the reset and the pushes since left them, holding  *)
(* nothing of the snapshotted cycle, and the step counter keeps the value  *)
(* it had before the flush.                                                *)
(***************************************************************************)
FlushRaised == done.op = "flush" /\ done.status = "raised"

\* the log_batch / log_samples calls a flush makes when none fails
CallsOfCompleteFlush(frame) ==
    Len(per_rank_reduce_backends)
        * ((IF DOMAIN frame.scalar_metrics # {} THEN 1 ELSE 0)
           + (IF DOMAIN frame.sample_metrics # {} THEN 1 ELSE 0))

C32_FlushFailurePropagates ==
    [][FlushRaised' =>
            /\ flush_calls[done'.id].pc \in {"await_batch", "await_samples"}
            /\ flush_calls'[done'.id].pc = "over"
            /\ done'.exc = "BackendError"
            /\ calls' = <<>>
            /\ Len(done'.frame.issued) = done'.frame.completed + 1
            /\ Len(done'.frame.issued) <= CallsOfCompleteFlush(done'.frame)
            /\ done'.frame.result = NoKeys
            /\ accumulators' = accumulators
            /\ \A key \in DOMAIN accumulators' :
                    accumulators'[key] =
                        AppendAll(accumulator_class(accumulators'[key].reduction_type),
                                  pending'[key])
            /\ global_step' = global_step
            /\ global_step' = CurrentStep'
            /\ last_flushed' = last_flushed]_vars

C32_Witness ==
    /\ FlushRaised
    /\ Len(per_rank_reduce_backends) = 2
    /\ done.frame.completed = 0
    /\ CallsOfCompleteFlush(done.frame) = 4
    /\ done.frame.return_state
    /\ done.frame.global_step = 1
    /\ global_step = 0
    /\ done.frame.vals[ScalarKey] # <<>>
    /\ NoDataHeld

(***************************************************************************)
(* C33: a push that runs while a flush(g) is suspended at a backend call   *)
(* leaves the snapshot of that flush as it is, is streamed to the          *)
(* stream-immediately backends with the step the counter had before        *)
(* flush(g) was called (the counter moves only when the flush returns),    *)
(* and its value is held for the next cycle: the next flush that finds     *)
(* data snapshots exactly the values pushed since the previous snapshot.   *)
(***************************************************************************)
FlushSuspended ==
    \E f \in DOMAIN flush_calls : flush_calls[f].pc \in {"await_batch", "await_samples"}

\* the values under the key of the metric, before the push
PendingUnder(metric) ==
    IF metric.key \in DOMAIN pending THEN pending[metric.key] ELSE <<>>

C33_PushDuringFlushJoinsNextCycle ==
    [][/\ (PushCalled /\ FlushSuspended) =>
            /\ flush_calls' = flush_calls
            /\ global_step' = global_step
            /\ global_step = CurrentStep
            /\ \A i \in 1 .. Len(calls') :
                    /\ calls'[i].op = "log_stream"
                    /\ calls'[i].step = CurrentStep
            /\ \A i \in Len(tasks) + 1 .. Len(tasks') : tasks'[i].step = CurrentStep
            /\ IsMetric(done'.arg) =>
                    Len(calls') + Len(tasks') - Len(tasks)
                        = Len(per_rank_no_reduce_backends)
            /\ done'.status = "returned" =>
                    pending'[done'.arg.key] =
                        Append(PendingUnder(done'.arg), done'.arg.value)
       /\ (FlushCalled /\ LastFlushFrame'.effective) =>
            /\ LastFlushFrame'.vals = pending
            /\ LastFlushFrame'.states =
                    [key \in DOMAIN pending |->
                        RawState(accumulators[key].reduction_type, pending[key])]
            /\ NoDataHeld']_vars

C33_Witness ==
    /\ done.op = "flush"
    /\ done.id = 2
    /\ done.status = "suspended"
    /\ DOMAIN flush_calls[2].vals = {SampleKey}
    /\ flush_calls[2].vals[SampleKey] = <<Sample(1)>>
    /\ flush_calls[2].states[SampleKey].samples # <<>>
    /\ init_step = 0
    /\ last_flushed = 1
    /\ n_push = 2
    /\ Len(tasks) = 2
    /\ \A i \in 1 .. Len(tasks) : tasks[i].step = 0

(***************************************************************************)
(* C34: the tie-break id of an appended sample is the number of samples    *)
(* appended since the last reset, so it is greater than every id issued    *)
(* since then and the entries are totally ordered by (value, id). What a   *)
(* filter retains is decided by its configuration and the sequence of      *)
(* samples appended since the last reset alone: the filter equals a new    *)
(* filter of the same configuration fed that sequence, each side holds the *)
(* entries that have fewer than k entries above them in (value, id) order, *)
(* so among entries of equal value the earliest inserted is evicted first. *)
(***************************************************************************)
HeapEntries(heap) == {heap[i] : i \in DOMAIN heap}

\* the entry filter_append makes for the i-th sample since the last reset,
\* with the sample's value (top side) or its negation (bottom side)
EntryOfAppend(i, sign) == Entry(sign * SampleKeyValue(seen[i]), i - 1, seen[i])

EntriesOfAppends(sign) == {EntryOfAppend(i, sign) : i \in DOMAIN seen}

\* b comes after a in the order of the pairs (value, id)
ComesAfter(b, a) == b.val > a.val \/ (b.val = a.val /\ b.idx > a.idx)

\* the entries that have fewer than k entries of the set after them
LastOf(entries, k) ==
    {a \in entries : Cardinality({b \in entries : ComesAfter(b, a)}) < k}

RECURSIVE FilterFed(_, _)
FilterFed(f, samples) ==
    IF samples = <<>> THEN f
    ELSE FilterFed(filter_append(f, Head(samples)), Tail(samples))

C34_EvictionIsDeterministic ==
    /\ filter.counter = Len(seen)
    /\ \A e \in HeapEntries(filter.top_heap) \cup HeapEntries(filter.bottom_heap) :
            e.idx < filter.counter
    /\ Cardinality(HeapEntries(filter.top_heap)) = Len(filter.top_heap)
    /\ Cardinality(HeapEntries(filter.bottom_heap)) = Len(filter.bottom_heap)
    /\ HeapEntries(filter.top_heap) = LastOf(EntriesOfAppends(1), filter.top_k)
    /\ HeapEntries(filter.bottom_heap) = LastOf(EntriesOfAppends(-1), filter.bottom_k)
    /\ filter = FilterFed(TopBottomKFilter(filter.top_k, filter.bottom_k), seen)

\* four samples of one value into a filter that keeps two on each side: the
\* two inserted first are gone from both sides
C34_Witness ==
    /\ filter.top_k = 2
    /\ filter.bottom_k = 2
    /\ Len(seen) = 4
    /\ \A i \in DOMAIN seen : seen[i] = Sample(5)
    /\ {e.idx : e \in HeapEntries(filter.top_heap)} = {2, 3}
    /\ {e.idx : e \in HeapEntries(filter.bottom_heap)} = {2, 3}

(***************************************************************************)
(* C35: filter_flush changes nothing and returns the samples of the bottom *)
(* heap followed by those of the top heap, each in heap order: with        *)
(* non-negative top_k and bottom_k and n appends since the last reset the  *)
(* list has min(n, bottom_k) + min(n, top_k) elements, a sample held on    *)
(* both sides being listed twice; a flush that follows a flush returns the *)
(* same list, and so do get_value and get_state of a sample accumulator    *)
(* fed the same samples, whose own list of samples stays empty.            *)
(***************************************************************************)
Min(a, b) == IF a < b THEN a ELSE b

\* the list returned is the bottom heap's samples, then the top heap's
FlushedAsHeld ==
    LET nb == Len(filter.bottom_heap)
        nt == Len(filter.top_heap)
    IN  /\ Len(flushed.value) = nb + nt
        /\ \A i \in 1 .. nb : flushed.value[i] = filter.bottom_heap[i].sample
        /\ \A i \in 1 .. nt : flushed.value[nb + i] = filter.top_heap[i].sample
        /\ (filter.top_k >= 0 /\ filter.bottom_k >= 0) =>
                Len(flushed.value) =
                    Min(Len(seen), filter.bottom_k) + Min(Len(seen), filter.top_k)

\* the filter is configured as the one a SampleAccumulator constructs
IsDefaultFilter == filter.top_k = DefaultTopK /\ filter.bottom_k = DefaultBottomK

\* a SampleAccumulator to which the samples seen since the last reset were appended
SampleAccumulatorFed == AppendAll(SampleAccumulator, seen)

AccumulatorAgrees ==
    IsDefaultFilter =>
        /\ SampleAccumulatorFed.filter = filter
        /\ SampleAccumulatorFed.samples = <<>>
        /\ flushed.returned =>
                /\ get_value(SampleAccumulatorFed) = flushed.value
                /\ get_state(SampleAccumulatorFed).samples = flushed.value

C35_FilterFlushIsReadOnly ==
    /\ [](flushed.returned => FlushedAsHeld)
    /\ []AccumulatorAgrees
    /\ [][/\ flushed'.returned => (filter' = filter /\ seen' = seen)
          /\ (flushed.returned /\ flushed'.returned) =>
                flushed'.value = flushed.value]_vars

\* one sample in a filter that keeps one on each side is returned twice
C35_Witness ==
    /\ flushed.returned
    /\ IsDefaultFilter
    /\ seen = <<Sample(5)>>
    /\ flushed.value = <<Sample(5), Sample(5)>>
    /\ get_state(SampleAccumulatorFed).samples = <<Sample(5), Sample(5)>>

(***************************************************************************)
(* C36: no step removes a key from the collector's accumulators or changes *)
(* the kind of a key's accumulator: the kind is that of the reduction of   *)
(* the first metric pushed under the key, a later push of a number under   *)
(* the key with another numeric reduction is appended to that accumulator  *)
(* without error, and every flush of an initialized collector that has     *)
(* accumulators snapshots a state for every key ever pushed, with or       *)
(* without new data.                                                       *)
(***************************************************************************)
KindOf(accs, key) == accs[key].reduction_type

C36_AccumulatorKeysOnlyGrow ==
    [][/\ DOMAIN accumulators \subseteq DOMAIN accumulators'
       /\ \A key \in DOMAIN accumulators :
                KindOf(accumulators', key) = KindOf(accumulators, key)
       /\ (PushCalled /\ is_initialized /\ IsMetric(done'.arg)) =>
            LET metric == done'.arg
                key == metric.key
            IN  /\ key \in DOMAIN accumulators'
                /\ DOMAIN accumulators' = DOMAIN accumulators \cup {key}
                /\ key \notin DOMAIN accumulators =>
                        KindOf(accumulators', key) = metric.reduction
                /\ (/\ key \in DOMAIN accumulators
                    /\ KindOf(accumulators, key) # "sample"
                    /\ metric.reduction # "sample"
                    /\ IsNumber(metric.value)) =>
                        /\ done'.status = "returned"
                        /\ done'.exc = "none"
                        /\ accumulators'[key] = append(accumulators[key], metric.value)
       /\ (FlushCalled /\ is_initialized /\ DOMAIN accumulators # {}) =>
            /\ LastFlushFrame'.effective
            /\ DOMAIN pending = DOMAIN accumulators
            /\ DOMAIN LastFlushFrame'.states = DOMAIN pending
            /\ \A key \in DOMAIN pending :
                    LastFlushFrame'.states[key].reduction_type = KindOf(accumulators, key)]_vars

\* after a flush, a number pushed with reduction "sum" under the key whose
\* accumulator was created by a "mean" metric has gone into the mean accumulator
C36_Witness ==
    /\ done.op = "push"
    /\ done.status = "returned"
    /\ done.arg.key = ScalarKey
    /\ done.arg.reduction = "sum"
    /\ done.arg.value = Num(3)
    /\ last_flushed # -1
    /\ accumulators[ScalarKey] = [reduction_type |-> "mean", sum |-> 3, count |-> 1]

(***************************************************************************)
(* C37: on an initialized collector, a push of a Metric whose value the    *)
(* key's accumulator rejects (a value that is not a record for a sample    *)
(* accumulator, a value that is not a number for a numeric one) raises     *)
(* ValueError or TypeError after it has made the log_stream call, or       *)
(* scheduled the log_samples task, of every stream-immediately backend     *)
(* and, for a new key, after it has inserted a new accumulator of the      *)
(* metric's reduction; an accumulator that existed is left as it was.      *)
(***************************************************************************)
\* the kind of the accumulator the push appends to
KindAppendedTo(metric) ==
    IF metric.key \in DOMAIN accumulators THEN KindOf(accumulators, metric.key)
    ELSE metric.reduction

Rejects(kind, value) ==
    (kind = "sample" /\ ~IsDict(value)) \/ (kind # "sample" /\ ~IsNumber(value))

C37_RejectedPushRaisesAfterStreaming ==
    [][(/\ PushCalled
        /\ is_initialized
        /\ IsMetric(done'.arg)
        /\ Rejects(KindAppendedTo(done'.arg), done'.arg.value)) =>
            LET metric == done'.arg
                key == metric.key
                n == Len(per_rank_no_reduce_backends)
            IN  /\ done'.status = "raised"
                /\ done'.exc = (IF KindAppendedTo(metric) = "sample"
                                THEN "ValueError" ELSE "TypeError")
                /\ IF metric.reduction = "sample"
                   THEN /\ calls' = <<>>
                        /\ Len(tasks') = Len(tasks) + n
                        /\ \A i \in 1 .. Len(tasks) : tasks'[i] = tasks[i]
                        /\ \A i \in 1 .. n :
                                tasks'[Len(tasks) + i] =
                                    Task(per_rank_no_reduce_backends[i].id,
                                         (key :> <<metric.value>>), global_step)
                   ELSE /\ tasks' = tasks
                        /\ Len(calls') = n
                        /\ \A i \in 1 .. n :
                                calls'[i] = Call(per_rank_no_reduce_backends[i].id,
                                                 "log_stream", metric, global_step)
                /\ DOMAIN accumulators' = DOMAIN accumulators \cup {key}
                /\ \A k \in DOMAIN accumulators : accumulators'[k] = accumulators[k]
                /\ key \notin DOMAIN accumulators =>
                        accumulators'[key] = accumulator_class(metric.reduction)]_vars

\* the first push is a number under SAMPLE: it raised, its task is scheduled
\* and the new sample accumulator is in the map, empty
C37_Witness ==
    /\ done.op = "push"
    /\ done.status = "raised"
    /\ done.exc = "ValueError"
    /\ done.arg = Metric(SampleKey, Num(1), "sample")
    /\ n_push = 1
    /\ Len(tasks) = 1
    /\ tasks[1].samples = (SampleKey :> <<Num(1)>>)
    /\ accumulators = (SampleKey :> SampleAccumulator)

(***************************************************************************)
(* C38: WandbBackend.init creates a run exactly for GLOBAL_REDUCE under    *)
(* role GLOBAL, for a per-rank mode under role LOCAL (the shared run of    *)
(* the supplied id when per_rank_share_run is set, a run of its own        *)
(* otherwise) and for a per-rank mode with per_rank_share_run under role   *)
(* GLOBAL. GLOBAL_REDUCE under LOCAL and a per-rank mode without           *)
(* per_rank_share_run under GLOBAL create none, and any other role raises. *)
(* A run that is due is missing only when wandb.init itself raised.        *)
(***************************************************************************)
\* init ended with the run of this id, or wandb.init raised and left none
RunCreated(out, id) ==
    \/ /\ out.raised = "none"
       /\ out.object.run # None
       /\ out.object.run.class = "Run"
       /\ out.object.run.id = id
    \/ /\ out.raised = "CommError"
       /\ out.object.run = None

\* init returned without a run
NoRunCreated(out) ==
    /\ out.raised = "none"
    /\ out.object.run = None

IsPerRank(self) == self.logging_mode \in {"per_rank_reduce", "per_rank_no_reduce"}

C38_InitCreatesRunByModeAndRole ==
    [][wandb_done'.op = "init" =>
        LET self == wandb_backends[TheBackend].object
            out == wandb_backends'[TheBackend]
            role == wandb_done'.arg.role
            metadata == wandb_done'.arg.primary_logger_metadata
            supplied == metadata # None /\ "shared_run_id" \in DOMAIN metadata
        IN  /\ self.run = None
            /\ (self.logging_mode = "global_reduce" /\ role = BackendRoleGlobal) =>
                    RunCreated(out, GeneratedRunId)
            /\ (IsPerRank(self) /\ role = BackendRoleLocal
                    /\ self.per_rank_share_run /\ supplied) =>
                    RunCreated(out, metadata.shared_run_id)
            /\ (IsPerRank(self) /\ role = BackendRoleLocal
                    /\ ~self.per_rank_share_run) =>
                    RunCreated(out, GeneratedRunId)
            /\ (IsPerRank(self) /\ role = BackendRoleGlobal
                    /\ self.per_rank_share_run) =>
                    RunCreated(out, GeneratedRunId)
            /\ (self.logging_mode = "global_reduce" /\ role = BackendRoleLocal) =>
                    NoRunCreated(out)
            /\ (IsPerRank(self) /\ role = BackendRoleGlobal
                    /\ ~self.per_rank_share_run) =>
                    NoRunCreated(out)
            /\ role \notin {BackendRoleGlobal, BackendRoleLocal} =>
                    /\ out.raised = "ValueError"
                    /\ out.object = self]_vars

\* inits of all three kinds of case have happened: here a GLOBAL_REDUCE
\* backend initialised under GLOBAL holds its run
C38_Witness ==
    /\ wandb_done.op = "init"
    /\ wandb_done.arg.role = BackendRoleGlobal
    /\ wandb_backends[TheBackend].raised = "none"
    /\ wandb_backends[TheBackend].object.logging_mode = "global_reduce"
    /\ wandb_backends[TheBackend].object.run # None
    /\ wandb_backends[TheBackend].object.run.id = GeneratedRunId

(***************************************************************************)
(* C39: on a WandbBackend whose run is None, because init was never run or *)
(* created none, log_batch, log_stream, log_samples and finish make no     *)
(* call on a run, leave the object as it was, tables included, and do not  *)
(* raise. get_metadata_for_secondary_ranks returns a shared_run_id, the    *)
(* run's id, exactly when the backend has a run and per_rank_share_run is  *)
(* set, and {} otherwise.                                                  *)
(***************************************************************************)
LogMethods == {"log_batch", "log_stream", "log_samples", "finish"}

C39_MethodsWithoutRunDoNothing ==
    [][LET self == wandb_backends[TheBackend].object
           out == wandb_backends'[TheBackend]
       IN  /\ (wandb_done'.op \in LogMethods /\ self.run = None) =>
                    /\ wandb_done'.writes = <<>>
                    /\ out.object = self
                    /\ out.object.tables = <<>>
                    /\ out.raised = "none"
           /\ wandb_done'.op = "get_metadata_for_secondary_ranks" =>
                    /\ out.object = self
                    /\ "shared_run_id" \in DOMAIN wandb_done'.returned <=>
                            (self.run # None /\ self.per_rank_share_run)
                    /\ IF self.run # None /\ self.per_rank_share_run
                       THEN wandb_done'.returned = ("shared_run_id" :> self.run.id)
                       ELSE wandb_done'.returned = NoKeys]_vars

\* a GLOBAL_REDUCE backend whose init under LOCAL created no run was handed
\* two rows: no call was made and no table exists
C39_Witness ==
    /\ wandb_done.op = "log_samples"
    /\ wandb_done.arg = <<SampleItem(SampleKey, <<Sample(3), PartialSample>>)>>
    /\ wandb_done.writes = <<>>
    /\ wandb_backends[TheBackend].raised = "none"
    /\ wandb_backends[TheBackend].object.logging_mode = "global_reduce"
    /\ wandb_backends[TheBackend].object.name = ActorNameWithRank
    /\ wandb_backends[TheBackend].object.run = None
    /\ wandb_backends[TheBackend].object.tables = <<>>

(***************************************************************************)
(* C40: a WandbBackend with a run holds at most one table per sample-table *)
(* name, an INCREMENTAL one, and never drops it. A log_samples creates the *)
(* table of a name at the first rows logged under it, with the columns of  *)
(* the first row, and afterwards appends each call's rows to that table,   *)
(* so that the table holds all rows ever logged under the name, in order;  *)
(* it logs the table under "<name>_table" once per name with rows, and a   *)
(* name with no rows gets no table and no call. finish logs an IMMUTABLE   *)
(* copy of every table, and only then finishes the run.                    *)
(***************************************************************************)
TableNames(tables) == {tables[i].name : i \in DOMAIN tables}

TableNamed(tables, name) ==
    tables[CHOOSE i \in DOMAIN tables : tables[i].name = name].table

\* the rows a samples dict holds under a name
RowsUnder(samples, name) ==
    IF \E i \in DOMAIN samples : samples[i].key = name
    THEN samples[CHOOSE i \in DOMAIN samples : samples[i].key = name].value
    ELSE <<>>

\* data is what held was, followed by the rows under the columns
Appended(data, held, columns, rows) ==
    /\ Len(data) = Len(held) + Len(rows)
    /\ \A i \in 1 .. Len(held) : data[i] = held[i]
    /\ \A r \in 1 .. Len(rows) :
            /\ Len(data[Len(held) + r]) = Len(columns)
            /\ \A c \in 1 .. Len(columns) :
                    data[Len(held) + r][c] =
                        IF columns[c] \in DOMAIN rows[r] THEN rows[r][columns[c]] ELSE None

\* the names of samples that have rows, in the order of the dict
NamesWithRows(samples) ==
    LET with == SelectSeq(samples, LAMBDA item : item.value # <<>>)
    IN  [i \in DOMAIN with |-> with[i].key]

OneTablePerName ==
    \A id \in DOMAIN wandb_backends :
        LET tables == wandb_backends[id].object.tables
        IN  /\ \A i, j \in DOMAIN tables : tables[i].name = tables[j].name => i = j
            /\ \A i \in DOMAIN tables : tables[i].table.log_mode = "INCREMENTAL"
            /\ tables # <<>> => wandb_backends[id].object.run # None

LogSamplesAppends ==
    LET self == wandb_backends[TheBackend].object
        after == wandb_backends'[TheBackend].object
        samples == wandb_done'.arg
        names == NamesWithRows(samples)
    IN  /\ TableNames(after.tables) = TableNames(self.tables) \cup {names[i] : i \in DOMAIN names}
        /\ \A name \in TableNames(after.tables) :
            LET table == TableNamed(after.tables, name)
                rows == RowsUnder(samples, name)
            IN  IF name \in TableNames(self.tables)
                THEN /\ table.columns = TableNamed(self.tables, name).columns
                     /\ Appended(table.data, TableNamed(self.tables, name).data,
                                 table.columns, rows)
                ELSE /\ table.columns = KeysOf(rows[1])
                     /\ Appended(table.data, <<>>, table.columns, rows)
        /\ Len(wandb_done'.writes) = Len(names)
        /\ \A i \in DOMAIN names :
                wandb_done'.writes[i] =
                    RunLog((names[i] \o "_table") :> TableNamed(after.tables, names[i]))

FinishPublishes ==
    LET self == wandb_backends[TheBackend].object
        after == wandb_backends'[TheBackend].object
        writes == wandb_done'.writes
    IN  /\ after.tables = self.tables
        /\ after.run.finished
        /\ Len(writes) = Len(self.tables) + 1
        /\ \A i \in DOMAIN self.tables :
                writes[i] = RunLog(self.tables[i].name :>
                                    [self.tables[i].table EXCEPT !.log_mode = "IMMUTABLE"])
        /\ writes[Len(writes)] = RunFinish

C40_OneIncrementalTablePerName ==
    /\ []OneTablePerName
    /\ [][LET self == wandb_backends[TheBackend].object
              after == wandb_backends'[TheBackend].object
          IN  (TheBackend \in DOMAIN wandb_backends /\ self.run # None) =>
                /\ wandb_done'.op = "log_samples" => LogSamplesAppends
                /\ wandb_done'.op = "finish" => FinishPublishes
                /\ wandb_done'.op \notin {"log_samples"} => after.tables = self.tables]_vars

\* three rows went into the table of one name over more than one log_samples,
\* a later one without a reward; finish has logged the immutable copy of all
\* three and then finished the run
C40_Witness ==
    /\ wandb_done.op = "finish"
    /\ wandb_backends[TheBackend].object.run # None
    /\ wandb_backends[TheBackend].object.run.finished
    /\ TableNames(wandb_backends[TheBackend].object.tables) = {SampleKey}
    /\ TableNamed(wandb_backends[TheBackend].object.tables, SampleKey).data =
            <<<<1, 1>>, <<3, 3>>, <<2, None>>>>
    /\ wandb_done.writes =
            <<RunLog(SampleKey :> Table(<<"episode_id", "reward">>,
                                        <<<<1, 1>>, <<3, 3>>, <<2, None>>>>,
                                        "IMMUTABLE")),
              RunFinish>>
====
